---- MODULE Spec2Model ----
(***************************************************************************)
(* Modular-kit core of portals-mcp: the edge rotator and piece finder of   *)
(* lib/modular_helpers.py and the piece classifier of                      *)
(* tools/classify_modular_edges.py.                                        *)
(*                                                                         *)
(* Python values are modelled as follows.  A dict is a function whose      *)
(* DOMAIN is its key set (a missing key is a key outside the DOMAIN); a    *)
(* dict whose iteration order matters is a sequence of entries.  A list is *)
(* a sequence.  Where object identity matters (rotated_edges returning     *)
(* copies) lists live on a heap and are named by their index in it.        *)
(***************************************************************************)
EXTENDS Integers, Sequences, FiniteSets, TLC

VARIABLES
    pc,          \* position of the driver of the component under check
    \* -- EdgeRotator (rotated_edges) --
    heap,        \* the list objects: heap[ref] is the content of list ref
    m,           \* the caller's edge map: face -> ref
    orig,        \* the content of m when it was built (never written)
    step_a,      \* rot_steps of the first call
    r1,          \* result of rotated_edges(m, step_a): face -> ref
    step_b,      \* rot_steps of the second call
    r2,          \* result of rotated_edges(r1, step_b): face -> ref
    \* -- PieceClassifier (tail of classify_piece) --
    cls_edges,        \* edges: face -> list of cell states
    simple_edges,     \* _simplify_edges(edges): face -> "open" | "closed"
    piece_type,       \* derive_piece_type(simple_edges)
    default_rotation, \* derive_default_rotation(simple_edges, piece_type)
    \* -- classify_coverage --
    coverage,    \* the ratio passed in, as <<numerator, denominator>>
    cov_result,  \* the (state, method) pair returned
    \* -- PieceFinder (find_piece) --
    catalog_items,   \* the catalog, in iteration order: <<[key, entry], ...>>
    arg_piece_type,  \* piece_type argument (None when not given)
    arg_needs_open,  \* needs_open argument (NoneDict when not given)
    arg_tags,        \* tags argument (None and [] are both the empty list)
    found,           \* outcome of the call: [raised, results]
    \* -- ModularKit (GridPlacer and validate_layout) --
    grid_size,       \* self.grid_size: <<x_size, z_size>>
    level_height,    \* self.level_height
    kit_catalog,     \* self.catalog_items, in iteration order
    place_fn,        \* self.place_fn: None or the bound callback
    _placed,         \* self._placed: the placed-piece records, in order
    kit_call,        \* the most recent call on the kit and its arguments
    place_calls,     \* the callback invocations made by that call
    kit_ret,         \* what that call returned, or that it raised
    \* -- classify_piece --
    mesh,            \* the mesh passed in, as far as the classifier reads it
    piece_result,    \* the dict returned
    \* -- main (batch classification of a catalog) --
    batch_loaded,    \* catalog["items"] as loaded, in iteration order
    batch_items,     \* catalog["items"] as updated by the loop
    batch_index,     \* position of the loop: the next item to process
    batch_log,       \* what happened to each item processed so far
    batch_saved,     \* the items written back to catalog.json, if any
    \* -- analyze_coverage --
    raster,          \* the boolean image passed in: its rows, top row first
    cov_args,        \* cells, floor_exclude, ceiling_exclude, side_exclude
    ratios,          \* the list of coverage ratios returned
    \* -- merge_logic_into_items, split_logic_from_items, normalize_snapshot --
    snap_orig,       \* the snapshot dict as first handed over
    snap_data,       \* the same dict, as mutated in place
    snap_ops         \* the calls made on it so far, in order

rotVars == <<heap, m, orig, step_a, r1, step_b, r2>>
clsVars == <<cls_edges, simple_edges, piece_type, default_rotation>>
covVars == <<coverage, cov_result>>
findVars == <<catalog_items, arg_piece_type, arg_needs_open, arg_tags, found>>
kitVars ==
    <<grid_size, level_height, kit_catalog, place_fn, _placed,
      kit_call, place_calls, kit_ret>>
pieceVars == <<mesh, piece_result>>
batchVars == <<batch_loaded, batch_items, batch_index, batch_log, batch_saved>>
rasterVars == <<raster, cov_args, ratios>>
snapVars == <<snap_orig, snap_data, snap_ops>>
vars ==
    <<pc, rotVars, clsVars, covVars, findVars, kitVars, pieceVars, batchVars,
      rasterVars, snapVars>>

(***************************************************************************)
(* Bounds of the model.                                                    *)
(***************************************************************************)
MaxLen == 2          \* longest transverse array of a rotated edge map
MaxExtentSum == 3    \* largest cells_x + cells_z of a classified piece
MaxPixels == 100     \* largest pixel count of a measured passage-zone cell
MaxCells == 2        \* longest transverse array of a catalog piece searched
MaxPlaced == 2       \* most pieces a caller of the kit places
MaxStack == 3        \* most pieces a caller stacks on the same cells
MaxItems == 2        \* most items of a catalog classified in one batch
MaxWidth == 4        \* widest raster measured, in pixels
RenderRes == 4       \* pixels per cell of a rasterized face (RENDER_RES is 128)
MaxOps == 2          \* conversions applied to one snapshot

(***************************************************************************)
(* Shared vocabulary.                                                      *)
(***************************************************************************)
EDGE_ORDER == <<"+z", "+x", "-z", "-x">>

Faces == {EDGE_ORDER[i] : i \in 1..4}

\* Python's EDGE_ORDER index (0-based) of a face.
EdgeIndex(face) ==
    CASE face = "+z" -> 0 [] face = "+x" -> 1 [] face = "-z" -> 2 [] face = "-x" -> 3

\* list(reversed(arr))
Reversed(arr) == [k \in 1..Len(arr) |-> arr[Len(arr) + 1 - k]]

\* Result of an operation that raised KeyError instead of returning.
KeyError == [raised \in {"KeyError"} |-> <<>>]

IsKeyError(value) == DOMAIN value = {"KeyError"}

\* dict.get(key, default)
Get(dict, key, default) == IF key \in DOMAIN dict THEN dict[key] ELSE default

\* None, where a string is expected.
None == "None"

\* None, where a dict is expected, and the empty dict {}.
NoneDict == [none \in {"None"} |-> FALSE]
EmptyDict == [none \in {} |-> FALSE]

\* Python truth of an optional dict: neither None nor empty.
Truthy(dict) == dict # NoneDict /\ DOMAIN dict # {}

\* The elements of a list.
Range(list) == {list[i] : i \in 1..Len(list)}

(***************************************************************************)
(* rotated_edges, on values: edges is a dict face -> list of states.       *)
(* Step 0 copies whatever keys the dict has; any other step reads all four *)
(* faces of EDGE_ORDER and so raises KeyError when one is missing.         *)
(***************************************************************************)
rotated_edges_flipped_parity(edges, rot_steps) ==
    LET rot == rot_steps % 4 IN
    IF rot = 0 THEN [k \in DOMAIN edges |-> edges[k]]
    ELSE IF \E i \in 0..3 : EDGE_ORDER[((i - rot) % 4) + 1] \notin DOMAIN edges
    THEN KeyError
    ELSE [edge_name \in Faces |->
            LET i == EdgeIndex(edge_name)
                source == EDGE_ORDER[((i - rot) % 4) + 1]
                arr == edges[source]
            IN  IF rot % 2 = 0 THEN Reversed(arr) ELSE arr]

rotated_edges_never_reversed(edges, rot_steps) ==
    LET rot == rot_steps % 4 IN
    IF rot = 0 THEN [k \in DOMAIN edges |-> edges[k]]
    ELSE IF \E i \in 0..3 : EDGE_ORDER[((i - rot) % 4) + 1] \notin DOMAIN edges
    THEN KeyError
    ELSE [edge_name \in Faces |->
            LET i == EdgeIndex(edge_name)
                source == EDGE_ORDER[((i - rot) % 4) + 1]
            IN  edges[source]]

rotated_edges_counter_clockwise(edges, rot_steps) ==
    LET rot == rot_steps % 4 IN
    IF rot = 0 THEN [k \in DOMAIN edges |-> edges[k]]
    ELSE IF \E i \in 0..3 : EDGE_ORDER[((i + rot) % 4) + 1] \notin DOMAIN edges
    THEN KeyError
    ELSE [edge_name \in Faces |->
            LET i == EdgeIndex(edge_name)
                source == EDGE_ORDER[((i + rot) % 4) + 1]
                arr == edges[source]
            IN  IF rot % 2 = 1 THEN Reversed(arr) ELSE arr]

rotated_edges(edges, rot_steps) ==
    LET rot == rot_steps % 4 IN
    IF rot = 0 THEN [k \in DOMAIN edges |-> edges[k]]
    ELSE IF \E i \in 0..3 : EDGE_ORDER[((i - rot) % 4) + 1] \notin DOMAIN edges
    THEN KeyError
    ELSE [edge_name \in Faces |->
            LET i == EdgeIndex(edge_name)
                source == EDGE_ORDER[((i - rot) % 4) + 1]
                arr == edges[source]
            IN  IF rot % 2 = 1 THEN Reversed(arr) ELSE arr]

(***************************************************************************)
(* rotated_edges, on object identity: which list object each key of the    *)
(* returned dict holds, given the refs of the argument and the first free  *)
(* ref.  Every value of the result is built by list(...), a new object.    *)
(***************************************************************************)
rotated_edges_refs_shared(refs, rot_steps, free) ==
    IF rot_steps % 4 = 0 THEN refs
    ELSE [edge_name \in Faces |-> free + EdgeIndex(edge_name)]

rotated_edges_refs(refs, rot_steps, free) ==
    IF rot_steps % 4 = 0
    THEN [k \in DOMAIN refs |-> free + EdgeIndex(k)]
    ELSE [edge_name \in Faces |-> free + EdgeIndex(edge_name)]

\* The content of a dict of list refs.
Deref(h, refs) == [k \in DOMAIN refs |-> h[refs[k]]]

\* The heap after the lists of `content` were allocated at `refs`.
Alloc(h, refs, content) ==
    LET top == Len(h) + 4 IN
    [ref \in 1..top |->
        IF ref <= Len(h) /\ ~(\E k \in DOMAIN refs : refs[k] = ref) THEN h[ref]
        ELSE IF \E k \in DOMAIN refs : refs[k] = ref
             THEN content[CHOOSE k \in DOMAIN refs : refs[k] = ref]
             ELSE <<>>]

(***************************************************************************)
(* Inputs of the rotator: 4-face maps whose +z/-z arrays have one length   *)
(* and whose +x/-x arrays another, each 0..MaxLen.  rotated_edges never    *)
(* inspects a cell, so two cell values exercise every path.                *)
(***************************************************************************)
RotCells == {"open", "closed"}

ArraysOfLen(cells, n) == [1..n -> cells]

FootprintMaps(cells, cells_x, cells_z) ==
    { [f \in Faces |-> IF f \in {"+z", "-z"} THEN zz[f] ELSE xx[f]] :
        zz \in [{"+z", "-z"} -> ArraysOfLen(cells, cells_x)],
        xx \in [{"+x", "-x"} -> ArraysOfLen(cells, cells_z)] }

RotSteps == 0..3

NoMap == [f \in Faces |-> 0]

\* Values of the variables of the components a driver does not run.
RotIdle ==
    /\ heap = <<>> /\ m = NoMap /\ orig = NoMap
    /\ step_a = 0 /\ r1 = NoMap /\ step_b = 0 /\ r2 = NoMap

ClsIdle ==
    /\ cls_edges = NoMap /\ simple_edges = NoMap
    /\ piece_type = "" /\ default_rotation = 0

CovIdle == coverage = <<0, 1>> /\ cov_result = <<"", "">>

NotCalled == [raised |-> FALSE, results |-> <<>>]

FindIdle ==
    /\ catalog_items = <<>>
    /\ arg_piece_type = None /\ arg_needs_open = NoneDict /\ arg_tags = <<>>
    /\ found = NotCalled

NoCall == [op |-> "none"]

KitIdle ==
    /\ grid_size = <<1, 1>> /\ level_height = 1 /\ kit_catalog = <<>>
    /\ place_fn = None /\ _placed = <<>>
    /\ kit_call = NoCall /\ place_calls = <<>>
    /\ kit_ret = [raised |-> FALSE, value |-> None]

PieceIdle == mesh = None /\ piece_result = None

RasterIdle == raster = <<>> /\ cov_args = NoCall /\ ratios = <<>>

SnapIdle == snap_orig = EmptyDict /\ snap_data = EmptyDict /\ snap_ops = <<>>

BatchIdle ==
    /\ batch_loaded = <<>> /\ batch_items = <<>> /\ batch_index = 1
    /\ batch_log = <<>> /\ batch_saved = None

RotInit ==
    /\ pc = "start"
    /\ \E cells_x \in 0..MaxLen, cells_z \in 0..MaxLen :
       \E em \in FootprintMaps(RotCells, cells_x, cells_z) :
         /\ heap = [ref \in 1..4 |-> em[EDGE_ORDER[ref]]]
         /\ orig = em
    /\ m = [f \in Faces |-> EdgeIndex(f) + 1]
    /\ step_a = 0 /\ step_b = 0
    /\ r1 = NoMap /\ r2 = NoMap
    /\ ClsIdle /\ CovIdle /\ FindIdle /\ KitIdle /\ PieceIdle /\ BatchIdle /\ RasterIdle /\ SnapIdle

\* r1 = rotated_edges(m, a)
RotateFirst(a) ==
    /\ pc = "start"
    /\ LET refs == rotated_edges_refs(m, a, Len(heap) + 1)
           content == rotated_edges(Deref(heap, m), a)
       IN  /\ r1' = refs
           /\ heap' = Alloc(heap, refs, content)
    /\ step_a' = a
    /\ pc' = "one"
    /\ UNCHANGED <<m, orig, step_b, r2, clsVars, covVars, findVars, kitVars, pieceVars, batchVars, rasterVars, snapVars>>

\* r2 = rotated_edges(r1, b)
RotateSecond(b) ==
    /\ pc = "one"
    /\ LET refs == rotated_edges_refs(r1, b, Len(heap) + 1)
           content == rotated_edges(Deref(heap, r1), b)
       IN  /\ r2' = refs
           /\ heap' = Alloc(heap, refs, content)
    /\ step_b' = b
    /\ pc' = "two"
    /\ UNCHANGED <<m, orig, step_a, r1, clsVars, covVars, findVars, kitVars, pieceVars, batchVars, rasterVars, snapVars>>

\* The caller edits the map it got back: r1[face].append("open")
AppendToResult(face) ==
    /\ pc = "one"
    /\ heap' = [heap EXCEPT ![r1[face]] = Append(@, "open")]
    /\ pc' = "edited"
    /\ UNCHANGED <<m, orig, step_a, r1, step_b, r2, clsVars, covVars, findVars, kitVars, pieceVars, batchVars, rasterVars, snapVars>>

RotNext ==
    \/ \E a \in RotSteps : RotateFirst(a)
    \/ \E b \in RotSteps : RotateSecond(b)
    \/ \E face \in Faces : AppendToResult(face)

SpecRot == RotInit /\ [][RotNext]_vars

(***************************************************************************)
(* Properties of the rotator.                                              *)
(***************************************************************************)
\* Some array of the input reads differently backwards.
HasAsymmetricArray == \E f \in Faces : orig[f] # Reversed(orig[f])

\* C1: rotating by a and then by b gives the same map as rotating once by
\* (a+b) mod 4; so one step applied twice is a two-step rotation and one
\* step applied four times gives back the input.
RotationComposition ==
    /\ pc = "two" =>
          Deref(heap, r2) = rotated_edges(orig, (step_a + step_b) % 4)
    /\ pc = "two" /\ step_a = 1 /\ step_b = 1 =>
          /\ Deref(heap, r2) = rotated_edges(orig, 2)
          /\ rotated_edges(rotated_edges(Deref(heap, r2), 1), 1) = orig

RotationCompositionWitness ==
    /\ pc = "two" /\ step_a = 1 /\ step_b = 1
    /\ HasAsymmetricArray
    /\ Deref(heap, r2) # orig

\* C2: rotating by r and then by (4-r) mod 4 gives back the input, and a
\* rotation by 0 returns an equal map none of whose arrays is an array of
\* the input: editing the copy leaves the input as it was.
RotationInverse ==
    /\ pc = "two" /\ step_b = (4 - step_a) % 4 => Deref(heap, r2) = orig
    /\ pc = "one" /\ step_a = 0 =>
          /\ Deref(heap, r1) = orig
          /\ {r1[f] : f \in Faces} \cap {m[f] : f \in Faces} = {}
    /\ pc = "edited" /\ step_a = 0 => Deref(heap, m) = orig

RotationInverseWitness ==
    /\ pc = "two" /\ step_a = 1 /\ step_b = 3
    /\ HasAsymmetricArray
    /\ Deref(heap, r1) # orig

\* The caller edited the copy a rotation by 0 returned.
EditedCopyReached ==
    pc = "edited" /\ step_a = 0 /\ Deref(heap, r1) # orig

\* C3: after an odd rotation r the array at cycle position i is, element by
\* element, the reverse of the input array at position (i - r) mod 4; after a
\* rotation by 2 it is the input array at position (i - 2) mod 4, in order.
MirroringParity ==
    pc = "one" /\ step_a # 0 =>
        \A i \in 0..3 :
            LET dst == heap[r1[EDGE_ORDER[i + 1]]]
                src == orig[EDGE_ORDER[((i - step_a) % 4) + 1]]
            IN  /\ Len(dst) = Len(src)
                /\ \A k \in 1..Len(src) :
                      dst[k] = IF step_a \in {1, 3} THEN src[Len(src) + 1 - k]
                               ELSE src[k]

MirroringParityWitness ==
    /\ pc = "one" /\ step_a = 3
    /\ Len(orig["+z"]) = MaxLen
    /\ orig["+z"] # Reversed(orig["+z"])
    /\ heap[r1["-x"]] = Reversed(orig["+z"])

(***************************************************************************)
(* classify_coverage.  A coverage is the ratio of two pixel counts; it is  *)
(* kept as <<numerator, denominator>> and compared with the thresholds,    *)
(* which are in hundredths, by cross-multiplication.                       *)
(***************************************************************************)
OPEN_THRESHOLD == 20      \* 0.20
CLOSED_THRESHOLD == 70    \* 0.70

Below(cov, hundredths) == cov[1] * 100 < hundredths * cov[2]
Above(cov, hundredths) == cov[1] * 100 > hundredths * cov[2]

classify_coverage_inclusive(cov) ==
    IF ~Above(cov, OPEN_THRESHOLD) THEN <<"open", "slab_analysis">>
    ELSE IF ~Below(cov, CLOSED_THRESHOLD) THEN <<"closed", "slab_analysis">>
    ELSE <<"uncertain", "needs_review">>

classify_coverage(cov) ==
    IF Below(cov, OPEN_THRESHOLD) THEN <<"open", "slab_analysis">>
    ELSE IF Above(cov, CLOSED_THRESHOLD) THEN <<"closed", "slab_analysis">>
    ELSE <<"uncertain", "needs_review">>

\* filled pixels over total pixels of a passage-zone cell
Coverages ==
    {<<filled, total>> : filled \in 0..MaxPixels, total \in 1..MaxPixels}

CovInit ==
    /\ pc = "start"
    /\ coverage \in {cov \in Coverages : cov[1] <= cov[2]}
    /\ cov_result = <<"", "">>
    /\ RotIdle /\ ClsIdle /\ FindIdle /\ KitIdle /\ PieceIdle /\ BatchIdle /\ RasterIdle /\ SnapIdle

ClassifyCoverage ==
    /\ pc = "start"
    /\ cov_result' = classify_coverage(coverage)
    /\ pc' = "classified"
    /\ UNCHANGED <<coverage, rotVars, clsVars, findVars, kitVars, pieceVars, batchVars, rasterVars, snapVars>>

CovNext == ClassifyCoverage

SpecCov == CovInit /\ [][CovNext]_vars

\* coverage is exactly n hundredths
IsHundredths(n) == coverage[1] * 100 = n * coverage[2]

\* C10: a coverage maps to exactly one of three states: open iff it is
\* below 0.20, closed iff it is above 0.70, uncertain otherwise; 0.19 is
\* open, 0.20, 0.50 and 0.70 are uncertain, 0.71 is closed.
CoverageThresholds ==
    pc = "classified" =>
        /\ cov_result[1] \in {"open", "closed", "uncertain"}
        /\ cov_result[1] = "open" <=> coverage[1] * 5 < coverage[2]
        /\ cov_result[1] = "closed" <=> coverage[1] * 10 > 7 * coverage[2]
        /\ cov_result[1] = "uncertain" <=>
              (coverage[1] * 5 >= coverage[2] /\ coverage[1] * 10 <= 7 * coverage[2])
        /\ IsHundredths(19) => cov_result[1] = "open"
        /\ IsHundredths(20) \/ IsHundredths(50) \/ IsHundredths(70) =>
              cov_result[1] = "uncertain"
        /\ IsHundredths(71) => cov_result[1] = "closed"

CoverageThresholdsWitness ==
    /\ pc = "classified"
    /\ coverage = <<70, 100>>
    /\ cov_result = <<"uncertain", "needs_review">>

(***************************************************************************)
(* Piece type and default rotation, derived from the classified edges as   *)
(* at the end of classify_piece.                                           *)
(***************************************************************************)
_simplify_edges_any_not_closed(edges) ==
    [face \in DOMAIN edges |->
        IF \E i \in 1..Len(edges[face]) : edges[face][i] # "closed"
        THEN "open" ELSE "closed"]

_simplify_edges(edges) ==
    [face \in DOMAIN edges |->
        IF "open" \in Range(edges[face]) THEN "open" ELSE "closed"]

derive_piece_type(edges) ==
    LET open_set == {face \in Faces : Get(edges, face, "") = "open"}
        n_open == Cardinality(open_set)
    IN  IF n_open = 0 THEN "enclosed"
        ELSE IF n_open = 1 THEN "end_cap"
        ELSE IF n_open = 4 THEN "intersection"
        ELSE IF n_open = 3 THEN "t_junction"
        ELSE IF n_open = 2 THEN
            IF open_set \in {{"+z", "-z"}, {"+x", "-x"}} THEN "straight"
            ELSE "corner"
        ELSE "enclosed"

\* pattern_from_edges: 1 = open, 0 = closed, in EDGE_ORDER
pattern_from_edges(e) ==
    [i \in 1..4 |-> IF Get(e, EDGE_ORDER[i], "") = "open" THEN 1 ELSE 0]

canonical_patterns ==
    [straight   |-> <<1, 0, 1, 0>>,
     corner     |-> <<1, 0, 0, 1>>,
     t_junction |-> <<1, 0, 1, 1>>,
     end_cap    |-> <<0, 0, 1, 0>>]

\* tuple(canonical[(i - rot) % 4] for i in range(4))
rotated_pattern(canonical, rot) ==
    [i \in 1..4 |-> canonical[(((i - 1) - rot) % 4) + 1]]

derive_default_rotation_counter_clockwise(edges, type) ==
    IF type \in {"intersection", "enclosed"} THEN 0
    ELSE IF type \notin DOMAIN canonical_patterns THEN 0
    ELSE LET actual == pattern_from_edges(edges)
             canonical == canonical_patterns[type]
             hits == {rot \in 0..3 :
                        [i \in 1..4 |-> canonical[(((i - 1) + rot) % 4) + 1]] = actual}
         IN  IF hits = {} THEN 0
             ELSE CHOOSE rot \in hits : \A other \in hits : rot <= other

derive_default_rotation_last_match(edges, type) ==
    IF type \in {"intersection", "enclosed"} THEN 0
    ELSE IF type \notin DOMAIN canonical_patterns THEN 0
    ELSE LET actual == pattern_from_edges(edges)
             canonical == canonical_patterns[type]
             hits == {rot \in 0..3 : rotated_pattern(canonical, rot) = actual}
         IN  IF hits = {} THEN 0
             ELSE CHOOSE rot \in hits : \A other \in hits : rot >= other

\* The loop returns at the first rot in 0..3 whose rotated canonical pattern
\* is the actual one, and 0 when there is none.
derive_default_rotation(edges, type) ==
    IF type \in {"intersection", "enclosed"} THEN 0
    ELSE IF type \notin DOMAIN canonical_patterns THEN 0
    ELSE LET actual == pattern_from_edges(edges)
             canonical == canonical_patterns[type]
             hits == {rot \in 0..3 : rotated_pattern(canonical, rot) = actual}
         IN  IF hits = {} THEN 0
             ELSE CHOOSE rot \in hits : \A other \in hits : rot <= other

(***************************************************************************)
(* Inputs of the classifier: the edges classify_piece has built for a      *)
(* piece of footprint [cells_x, cells_z]: +z/-z hold cells_x states and    *)
(* +x/-x hold cells_z states, each open, closed or uncertain.              *)
(***************************************************************************)
EdgeStates == {"open", "closed", "uncertain"}

\* grid_footprint = [max(1, ...), max(1, ...)]
ClsFootprints ==
    {fp \in (1..MaxExtentSum) \X (1..MaxExtentSum) : fp[1] + fp[2] <= MaxExtentSum}

ClsInit ==
    /\ pc = "start"
    /\ \E fp \in ClsFootprints :
         cls_edges \in FootprintMaps(EdgeStates, fp[1], fp[2])
    /\ simple_edges = NoMap
    /\ piece_type = "" /\ default_rotation = 0
    /\ RotIdle /\ CovIdle /\ FindIdle /\ KitIdle /\ PieceIdle /\ BatchIdle /\ RasterIdle /\ SnapIdle

\* simple_edges = _simplify_edges(edges); piece_type = ...; default_rotation = ...
DerivePiece ==
    /\ pc = "start"
    /\ LET simple == _simplify_edges(cls_edges)
           type == derive_piece_type(simple)
       IN  /\ simple_edges' = simple
           /\ piece_type' = type
           /\ default_rotation' = derive_default_rotation(simple, type)
    /\ pc' = "derived"
    /\ UNCHANGED <<cls_edges, rotVars, covVars, findVars, kitVars, pieceVars, batchVars, rasterVars, snapVars>>

ClsNext == DerivePiece

SpecCls == ClsInit /\ [][ClsNext]_vars

(***************************************************************************)
(* Properties of the classifier.                                           *)
(***************************************************************************)
\* The faces with at least one open transverse cell.
OpenFaces == {f \in Faces : \E i \in 1..Len(cls_edges[f]) : cls_edges[f][i] = "open"}

\* Two faces are opposite when they are two apart in the cycle +z,+x,-z,-x.
Opposite(f, g) == (EdgeIndex(f) - EdgeIndex(g)) % 4 = 2

\* C7: the piece type is decided by the set of faces that have an open cell
\* (an uncertain cell does not open a face): none enclosed, one end_cap,
\* three t_junction, four intersection, two opposite faces straight, two
\* adjacent faces corner.
TypeDeterminism ==
    pc = "derived" =>
        LET n == Cardinality(OpenFaces) IN
        /\ n = 0 => piece_type = "enclosed"
        /\ n = 1 => piece_type = "end_cap"
        /\ n = 3 => piece_type = "t_junction"
        /\ n = 4 => piece_type = "intersection"
        /\ n = 2 /\ (\E f, g \in OpenFaces : Opposite(f, g)) =>
              piece_type = "straight" /\ OpenFaces \in {{"+z", "-z"}, {"+x", "-x"}}
        /\ n = 2 /\ ~(\E f, g \in OpenFaces : Opposite(f, g)) =>
              piece_type = "corner"

TypeDeterminismWitness ==
    /\ pc = "derived"
    /\ piece_type = "corner"
    /\ cls_edges["+z"] = <<"uncertain", "open">>
    /\ cls_edges["+x"] = <<"open">>
    /\ cls_edges["-z"] = <<"uncertain", "closed">>
    /\ cls_edges["-x"] = <<"uncertain">>

\* The faces a type is open on in its canonical orientation.
CanonicalOpen(type) ==
    {EDGE_ORDER[i] : i \in {j \in 1..4 : canonical_patterns[type][j] = 1}}

\* Turning every face of a set rot places forward in the cycle.
TurnFaces(faces, rot) == {EDGE_ORDER[((EdgeIndex(f) + rot) % 4) + 1] : f \in faces}

\* The rotation counts that map the canonical pattern of the derived type
\* onto the actual pattern.
MatchingRotations ==
    {rot \in 0..3 : TurnFaces(CanonicalOpen(piece_type), rot) = OpenFaces}

Asymmetric == {"straight", "corner", "t_junction", "end_cap"}

\* C8 as stated: for straight, corner, t_junction and end_cap exactly one
\* rotation count in 0..3 maps the canonical pattern onto the actual one and
\* it is the default rotation; intersection and enclosed get 0.
DefaultRotationUnique ==
    pc = "derived" =>
        /\ piece_type \in Asymmetric =>
              MatchingRotations = {default_rotation}
        /\ piece_type \in {"intersection", "enclosed"} => default_rotation = 0

\* C8 amended: the default rotation is the least rotation count in 0..3 that
\* maps the canonical pattern onto the actual one; that count is the only
\* one for corner, t_junction and end_cap, while for straight exactly two
\* counts do, r and r + 2; intersection and enclosed get 0.
DefaultRotationLeast ==
    pc = "derived" =>
        /\ piece_type \in Asymmetric =>
              /\ default_rotation \in MatchingRotations
              /\ \A rot \in MatchingRotations : default_rotation <= rot
        /\ piece_type \in {"corner", "t_junction", "end_cap"} =>
              MatchingRotations = {default_rotation}
        /\ piece_type = "straight" =>
              /\ default_rotation \in {0, 1}
              /\ MatchingRotations = {default_rotation, default_rotation + 2}
        /\ piece_type \in {"intersection", "enclosed"} => default_rotation = 0

DefaultRotationLeastWitness ==
    /\ pc = "derived"
    /\ piece_type = "straight"
    /\ default_rotation = 1
    /\ MatchingRotations = {1, 3}

\* The canonical pattern of a type as an edge map of one cell per face.
CanonicalMap(type) ==
    [f \in Faces |->
        <<IF canonical_patterns[type][EdgeIndex(f) + 1] = 1 THEN "open" ELSE "closed">>]

\* C9: for a pattern whose derived type is straight, corner, t_junction or
\* end_cap, rotated_edges turns the canonical map of the type by the default
\* rotation into the pattern itself, so the search never falls back to 0 for
\* want of a match; a straight piece open on +x and -x gets rotation 1.
RotationInference ==
    pc = "derived" /\ piece_type \in Asymmetric =>
        /\ rotated_edges(CanonicalMap(piece_type), default_rotation)
              = [f \in Faces |-> <<simple_edges[f]>>]
        /\ \E rot \in 0..3 : rotated_pattern(canonical_patterns[piece_type], rot)
                                = pattern_from_edges(simple_edges)
        /\ piece_type = "straight" /\ OpenFaces = {"+x", "-x"} =>
              default_rotation = 1

RotationInferenceWitness ==
    /\ pc = "derived"
    /\ piece_type = "corner"
    /\ OpenFaces = {"+x", "-z"}
    /\ default_rotation = 2

(***************************************************************************)
(* find_piece.  The outcome of a call is [raised, results]: results is the *)
(* returned list of <<key, rot>> pairs, and raised tells that the call     *)
(* ended in a KeyError instead of returning.                               *)
(***************************************************************************)
Returned(results) == [raised |-> FALSE, results |-> results]
Raised == [raised |-> TRUE, results |-> <<>>]

\* all(e == "open" for e in edges.get(edge_name, []))
all_open(edges, edge_name) ==
    LET arr == Get(edges, edge_name, <<>>)
    IN  \A i \in 1..Len(arr) : arr[i] = "open"

\* The inner loop over needs_open.items(): match stays True unless a face
\* that must be open has a cell that is not.
rotation_matches_any_open(edges, needs_open) ==
    \A edge_name \in DOMAIN needs_open :
        ~(needs_open[edge_name]
            /\ ~(\E i \in 1..Len(Get(edges, edge_name, <<>>)) :
                    Get(edges, edge_name, <<>>)[i] = "open"))

rotation_matches(edges, needs_open) ==
    \A edge_name \in DOMAIN needs_open :
        ~(needs_open[edge_name] /\ ~all_open(edges, edge_name))

\* The piece_type and tags filters on the modular data of an entry:
\* "pass", "skip" (continue with the next entry) or "raise".
entry_filter_untyped(mod, type, tags) ==
    IF tags # <<>> /\ ~(Range(tags) \subseteq Range(Get(mod, "tags", <<>>)))
    THEN "skip"
    ELSE "pass"

entry_filter(mod, type, tags) ==
    IF type # None /\ "piece_type" \notin DOMAIN mod THEN "raise"
    ELSE IF type # None /\ mod.piece_type # type THEN "skip"
    ELSE IF tags # <<>> /\ ~(Range(tags) \subseteq Range(Get(mod, "tags", <<>>)))
    THEN "skip"
    ELSE "pass"

\* The rotations appended for an entry that passed the filters, as the
\* results of an outcome.
entry_rotations(mod, needs_open) ==
    IF Truthy(needs_open)
    THEN IF "edges" \notin DOMAIN mod THEN Raised
         ELSE LET edges == [rot \in 0..3 |-> rotated_edges(mod.edges, rot)]
                  keep(rot) == rotation_matches(edges[rot], needs_open)
              IN  IF \E rot \in 0..3 : IsKeyError(edges[rot]) THEN Raised
                  ELSE Returned(SelectSeq(<<0, 1, 2, 3>>, keep))
    ELSE Returned(<<0>>)

\* The body of the loop over catalog_items.items(), for one entry: what it
\* appends to results, or that it raised.
find_piece_entry(key, entry, type, needs_open, tags) ==
    LET mod == Get(entry, "modular", NoneDict) IN
    IF ~Truthy(mod) THEN Returned(<<>>)
    ELSE LET verdict == entry_filter(mod, type, tags) IN
         IF verdict = "raise" THEN Raised
         ELSE IF verdict = "skip" THEN Returned(<<>>)
         ELSE LET rots == entry_rotations(mod, needs_open) IN
              IF rots.raised THEN Raised
              ELSE Returned([i \in 1..Len(rots.results) |-> <<key, rots.results[i]>>])

\* The whole call: the entries' results in catalog order, unless an entry
\* raised (nothing is returned then).
find_piece(catalog, type, needs_open, tags) ==
    LET outcome == [i \in 1..Len(catalog) |->
                      find_piece_entry(catalog[i].key, catalog[i].entry,
                                       type, needs_open, tags)]
        RECURSIVE upto(_)
        upto(n) == IF n = 0 THEN <<>> ELSE upto(n - 1) \o outcome[n].results
    IN  IF \E i \in 1..Len(catalog) : outcome[i].raised THEN Raised
        ELSE Returned(upto(Len(catalog)))

(***************************************************************************)
(* Inputs of the finder.  A catalog entry is what the classifier persists  *)
(* for a piece (edges, piece_type and grid_footprint of its modular data;  *)
(* default_rotation and needs_review are never read here), optionally with *)
(* hand-added tags, or an item that was never classified.                  *)
(***************************************************************************)
\* item["modular"] as written by the classifier for the edges it found
ClassifiedModular(edges) ==
    [edges |-> edges,
     piece_type |-> derive_piece_type(_simplify_edges(edges)),
     grid_footprint |-> <<Len(edges["+z"]), Len(edges["+x"])>>]

Tagged(modular, tags) ==
    [edges |-> modular.edges, piece_type |-> modular.piece_type,
     grid_footprint |-> modular.grid_footprint, tags |-> tags]

\* One-cell pieces in all three states; longer pieces open or closed.
FindEdgeMaps ==
    FootprintMaps(EdgeStates, 1, 1) \cup
    UNION { FootprintMaps({"open", "closed"}, cells_x, 1) : cells_x \in 2..MaxCells }

OpenCorner ==
    [f \in Faces |-> IF f \in {"+z", "-x"} THEN <<"open">> ELSE <<"closed">>]
OpenAllAround == [f \in Faces |-> <<"open">>]

TagLists == {<<>>, <<"lit">>, <<"wide", "lit">>}

Unclassified == {[cdn_url |-> "u"], [cdn_url |-> "u", modular |-> EmptyDict]}

FindEntries ==
    {[modular |-> ClassifiedModular(e)] : e \in FindEdgeMaps}
    \cup {[modular |-> Tagged(ClassifiedModular(OpenCorner), t)] : t \in TagLists}
    \cup Unclassified

\* What may follow the first entry in a two-entry catalog.
SecondEntries ==
    {[modular |-> ClassifiedModular(OpenAllAround)],
     [modular |-> Tagged(ClassifiedModular(OpenCorner), <<"lit">>)],
     [cdn_url |-> "u"]}

PieceTypeArgs == {None, "corner", "end_cap"}

TagArgs == {<<>>, <<"lit">>, <<"lit", "wide">>}

NeedsOpenArgs ==
    {NoneDict} \cup UNION {[faces -> BOOLEAN] : faces \in SUBSET Faces}

FindInit ==
    /\ pc = "start"
    /\ \/ catalog_items = <<>>
       \/ \E first \in FindEntries :
            catalog_items = <<[key |-> "k1", entry |-> first]>>
       \/ \E first \in FindEntries, second \in SecondEntries :
            catalog_items = <<[key |-> "k1", entry |-> first],
                              [key |-> "k2", entry |-> second]>>
    /\ arg_piece_type = None /\ arg_needs_open = NoneDict /\ arg_tags = <<>>
    /\ found = NotCalled
    /\ RotIdle /\ ClsIdle /\ CovIdle /\ KitIdle /\ PieceIdle /\ BatchIdle /\ RasterIdle /\ SnapIdle

\* found = find_piece(catalog_items, piece_type, needs_open, tags)
FindPiece(type, needs_open, tags) ==
    /\ pc = "start"
    /\ arg_piece_type' = type
    /\ arg_needs_open' = needs_open
    /\ arg_tags' = tags
    /\ found' = find_piece(catalog_items, type, needs_open, tags)
    /\ pc' = "found"
    /\ UNCHANGED <<catalog_items, rotVars, clsVars, covVars, kitVars, pieceVars, batchVars, rasterVars, snapVars>>

\* Calls that constrain the open faces only, and calls that filter by type
\* and tags with no, an empty or a one-face needs_open.
FindNext ==
    \/ \E needs_open \in NeedsOpenArgs : FindPiece(None, needs_open, <<>>)
    \/ \E type \in PieceTypeArgs, tags \in TagArgs :
       \E needs_open \in {NoneDict, EmptyDict, [f \in {"+z"} |-> TRUE]} :
          FindPiece(type, needs_open, tags)

SpecFind == FindInit /\ [][FindNext]_vars

(***************************************************************************)
(* Properties of the finder.                                               *)
(***************************************************************************)
CatalogIndex(key) == CHOOSE i \in 1..Len(catalog_items) : catalog_items[i].key = key

\* The modular data of the i-th catalog entry, when it has some.
HasModular(i) ==
    /\ "modular" \in DOMAIN catalog_items[i].entry
    /\ DOMAIN catalog_items[i].entry.modular # {}

ModularOf(i) == catalog_items[i].entry.modular

\* The i-th entry passes the piece_type equality and tag-subset filters of
\* the call.
PassesFilters(i) ==
    /\ HasModular(i)
    /\ arg_piece_type # None => ModularOf(i).piece_type = arg_piece_type
    /\ \A t \in Range(arg_tags) :
          "tags" \in DOMAIN ModularOf(i) /\ t \in Range(ModularOf(i).tags)

\* Every face named in needs_open with value true is open at all of its
\* transverse cells once the i-th entry's edges are rotated by rot.
FullyOpenAt(i, rot) ==
    \A face \in DOMAIN arg_needs_open :
        arg_needs_open[face] =>
            LET arr == rotated_edges(ModularOf(i).edges, rot)[face]
            IN  \A c \in 1..Len(arr) : arr[c] = "open"

\* The pairs of a result list come in catalog order, then ascending rotation.
InCatalogOrder(results) ==
    \A a, b \in 1..Len(results) :
        a < b =>
            \/ CatalogIndex(results[a][1]) < CatalogIndex(results[b][1])
            \/ results[a][1] = results[b][1] /\ results[a][2] < results[b][2]

\* The rotations the call returned for the i-th entry.
RotationsReturned(i) ==
    {found.results[n][2] : n \in {n \in 1..Len(found.results) :
                                    found.results[n][1] = catalog_items[i].key}}

\* The i-th entry is open on `face` alone: its cells there are open and all
\* cells of the other three faces are closed.
OpenOnlyOn(i, face) ==
    /\ HasModular(i)
    /\ \A f \in Faces : \A c \in 1..Len(ModularOf(i).edges[f]) :
          ModularOf(i).edges[f][c] = IF f = face THEN "open" ELSE "closed"

PlusZMustBeOpen ==
    /\ pc = "found"
    /\ arg_needs_open = [f \in {"+z"} |-> TRUE]
    /\ arg_piece_type = None /\ arg_tags = <<>>

\* C4 as stated: a piece open only on -x is returned by
\* find_piece(needs_open={"+z": true}) as exactly the pair (key, 3).
FindOpenMinusXAtThree ==
    PlusZMustBeOpen =>
        \A i \in 1..Len(catalog_items) :
            OpenOnlyOn(i, "-x") => RotationsReturned(i) = {3}

\* C4 amended: a piece open only on -x is returned by
\* find_piece(needs_open={"+z": true}) as exactly the pair (key, 1): one
\* rotation step brings its open face to +z, and three steps bring the open
\* face of a piece open only on +x to +z.
FindOpenMinusXAtOne ==
    PlusZMustBeOpen =>
        \A i \in 1..Len(catalog_items) :
            /\ OpenOnlyOn(i, "-x") =>
                  /\ RotationsReturned(i) = {1}
                  /\ Cardinality({n \in 1..Len(found.results) :
                        found.results[n] = <<catalog_items[i].key, 1>>}) = 1
                  /\ rotated_edges(ModularOf(i).edges, 1)["+z"] = ModularOf(i).edges["-x"]
            /\ OpenOnlyOn(i, "+x") => RotationsReturned(i) = {3}

FindOpenMinusXWitness ==
    /\ PlusZMustBeOpen
    /\ Len(catalog_items) = 2
    /\ OpenOnlyOn(1, "-x")
    /\ found.results = << <<"k1", 1>>, <<"k2", 0>>, <<"k2", 1>>, <<"k2", 2>>, <<"k2", 3>> >>

\* What find_piece returns when it tries the four rotations of each entry.
ReturnsFullyOpenRotations ==
    /\ ~found.raised
    /\ \A i \in 1..Len(catalog_items) :
          RotationsReturned(i) =
              {rot \in 0..3 : PassesFilters(i) /\ FullyOpenAt(i, rot)}
    /\ \A n \in 1..Len(found.results) :
          \E i \in 1..Len(catalog_items) : found.results[n][1] = catalog_items[i].key
    /\ InCatalogOrder(found.results)

\* What find_piece returns when it does not look at the edges.
ReturnsOnceAtZero ==
    /\ ~found.raised
    /\ \A i \in 1..Len(catalog_items) :
          RotationsReturned(i) = IF PassesFilters(i) THEN {0} ELSE {}
    /\ Len(found.results) =
          Cardinality({i \in 1..Len(catalog_items) : PassesFilters(i)})
    /\ InCatalogOrder(found.results)

\* C5 as stated: whenever needs_open is given, (key, rot) is returned for a
\* piece passing the filters iff every face needs_open names with value true
\* is open at all its cells after rotating by rot; every such rot in 0..3 is
\* returned, in catalog order and then ascending rotation.
FindByOpenFacesGiven ==
    pc = "found" /\ arg_needs_open # NoneDict => ReturnsFullyOpenRotations

\* C5 amended: the same, when needs_open is given and names at least one
\* face; an empty needs_open is treated as absent, each passing piece being
\* returned once at rotation 0.
FindByOpenFacesNonEmpty ==
    /\ pc = "found" /\ arg_needs_open # NoneDict /\ DOMAIN arg_needs_open # {} =>
          ReturnsFullyOpenRotations
    /\ pc = "found" /\ arg_needs_open = EmptyDict => ReturnsOnceAtZero

FindByOpenFacesWitness ==
    /\ pc = "found"
    /\ arg_needs_open = [f \in {"+z", "-z"} |-> f = "+z"]
    /\ Len(catalog_items) = 2
    /\ HasModular(1)
    /\ ModularOf(1).edges["+z"] = <<"open", "closed">>
    /\ found.results = << <<"k1", 1>>, <<"k1", 2>>, <<"k2", 0>>, <<"k2", 1>> >>

\* C6: when needs_open is absent, every catalog piece that has modular data
\* and passes the piece_type and tag filters is returned exactly once, at
\* rotation 0, and nothing else is returned.
FindWithoutOpenFaces ==
    pc = "found" /\ arg_needs_open = NoneDict => ReturnsOnceAtZero

FindWithoutOpenFacesWitness ==
    /\ pc = "found"
    /\ arg_needs_open = NoneDict
    /\ arg_piece_type = "corner" /\ arg_tags = <<"lit", "wide">>
    /\ Len(catalog_items) = 2
    /\ PassesFilters(1) /\ HasModular(2) /\ ~PassesFilters(2)
    /\ found.results = << <<"k1", 0>> >>

(***************************************************************************)
(* ModularKit: grid placement (place_mod, place_room, place_corridor_run)  *)
(* and validate_layout.  World coordinates are kept in half world units,   *)
(* so that the footprint centre (anchor + fp / 2.0) * grid_size is an      *)
(* integer; grid sizes and the level height are whole numbers.  A warning  *)
(* string is modelled by the values formatted into it.                     *)
(***************************************************************************)
\* Concatenation of a sequence of sequences, in order.
RECURSIVE Flatten(_)
Flatten(lists) ==
    IF lists = <<>> THEN <<>> ELSE Head(lists) \o Flatten(Tail(lists))

\* self.catalog_items.get(key, {})
CatalogGet(catalog, key) ==
    IF \E i \in 1..Len(catalog) : catalog[i].key = key
    THEN catalog[CHOOSE i \in 1..Len(catalog) : catalog[i].key = key].entry
    ELSE EmptyDict

Max(a, b) == IF a > b THEN a ELSE b

\* A coordinate times a cell size, in half world units.
WorldHalves(doubled_cells, size) == doubled_cells * size

\* The record place_mod appends.
place_mod_record(key, gx, gz, rot_steps, level) ==
    [key |-> key, gx |-> gx, gz |-> gz, rot_steps |-> rot_steps, level |-> level]

\* The arguments place_mod passes to the callback.
place_mod_call_swapped_axes(key, gx, gz, rot_steps, level, scale) ==
    [key |-> key,
     position |-> <<WorldHalves(2 * gx, grid_size[2]),
                    WorldHalves(2 * level, level_height),
                    WorldHalves(2 * gz, grid_size[1])>>,
     facing_deg |-> rot_steps * 90,
     scale |-> scale]

place_mod_call(key, gx, gz, rot_steps, level, scale) ==
    [key |-> key,
     position |-> <<WorldHalves(2 * gx, grid_size[1]),
                    WorldHalves(2 * level, level_height),
                    WorldHalves(2 * gz, grid_size[2])>>,
     facing_deg |-> rot_steps * 90,
     scale |-> scale]

\* fp of place_room: the catalog footprint of the key, [1, 1] by default.
room_footprint(catalog, key) ==
    LET mod == Get(CatalogGet(catalog, key), "modular", EmptyDict)
    IN  Get(mod, "grid_footprint", <<1, 1>>)

\* The record place_room appends.
place_room_record(key, anchor_gx, anchor_gz, rot_steps, level) ==
    [key |-> key, gx |-> anchor_gx, gz |-> anchor_gz, rot_steps |-> rot_steps,
     level |-> level, footprint |-> room_footprint(kit_catalog, key)]

\* The position place_room passes to the callback: the footprint centre.
room_position_at_anchor(anchor_gx, anchor_gz, level, fp) ==
    <<WorldHalves(2 * anchor_gx, grid_size[1]),
      WorldHalves(2 * level, level_height),
      WorldHalves(2 * anchor_gz, grid_size[2])>>

room_position(anchor_gx, anchor_gz, level, fp) ==
    <<WorldHalves(2 * anchor_gx + fp[1], grid_size[1]),
      WorldHalves(2 * level, level_height),
      WorldHalves(2 * anchor_gz + fp[2], grid_size[2])>>

place_room_call(key, anchor_gx, anchor_gz, rot_steps, level, scale) ==
    [key |-> key,
     position |-> room_position(anchor_gx, anchor_gz, level,
                                room_footprint(kit_catalog, key)),
     facing_deg |-> rot_steps * 90,
     scale |-> scale]

\* dir_map of place_corridor_run: direction -> <<dx, dz, rot>>
dir_map_turning_minus_x ==
    [direction \in Faces |->
        CASE direction = "+x" -> <<1, 0, 1>>
          [] direction = "-x" -> <<-1, 0, 3>>
          [] direction = "+z" -> <<0, 1, 0>>
          [] direction = "-z" -> <<0, -1, 0>>]

dir_map_defaulting ==
    [direction \in Faces \cup {"up"} |->
        CASE direction = "+x" -> <<1, 0, 1>>
          [] direction = "-x" -> <<-1, 0, 1>>
          [] direction = "-z" -> <<0, -1, 0>>
          [] OTHER -> <<0, 1, 0>>]

dir_map ==
    [direction \in Faces |->
        CASE direction = "+x" -> <<1, 0, 1>>
          [] direction = "-x" -> <<-1, 0, 1>>
          [] direction = "+z" -> <<0, 1, 0>>
          [] direction = "-z" -> <<0, -1, 0>>]

\* range(length), as the sequence 0, 1, ..., length - 1
range(length) == [k \in 1..length |-> k - 1]

\* The records the loop of place_corridor_run appends, in order.
corridor_records(key, start_gx, start_gz, direction, length, level) ==
    LET step == dir_map[direction]
    IN  [k \in 1..length |->
            place_mod_record(key, start_gx + range(length)[k] * step[1],
                             start_gz + range(length)[k] * step[2],
                             step[3], level)]

\* The callback invocations of that loop, in order.
corridor_calls(key, start_gx, start_gz, direction, length, level, scale) ==
    LET step == dir_map[direction]
    IN  [k \in 1..length |->
            place_mod_call(key, start_gx + range(length)[k] * step[1],
                           start_gz + range(length)[k] * step[2],
                           step[3], level, scale)]

\* p.get("footprint", [1, 1])
footprint_of(p) == Get(p, "footprint", <<1, 1>>)

\* The cells of a placed piece in the order of the loops over dx and dz.
footprint_cells(p) ==
    LET fp == footprint_of(p)
    IN  [k \in 1..(fp[1] * fp[2]) |->
            <<p.gx + ((k - 1) \div fp[2]), p.gz + ((k - 1) % fp[2]), p.level>>]

\* Every (cell, key) claim of the overlap pass, in the order it is made.
layout_claims(placed) ==
    Flatten([n \in 1..Len(placed) |->
                [k \in 1..Len(footprint_cells(placed[n])) |->
                    [cell |-> footprint_cells(placed[n])[k],
                     key |-> placed[n].key]]])

OverlapWarning(cell, owner, key) ==
    [kind |-> "overlap", cell |-> cell, owner |-> owner, key |-> key]

\* One iteration of the innermost loop of the overlap pass: warn when the
\* cell is claimed, then record the new owner.
claim_cell_first_writer(pass, claim) ==
    [occupied |-> pass.occupied @@ (claim.cell :> claim.key),
     warnings |->
        IF claim.cell \in DOMAIN pass.occupied
        THEN Append(pass.warnings,
                    OverlapWarning(claim.cell, pass.occupied[claim.cell], claim.key))
        ELSE pass.warnings]

claim_cell(pass, claim) ==
    [occupied |-> (claim.cell :> claim.key) @@ pass.occupied,
     warnings |->
        IF claim.cell \in DOMAIN pass.occupied
        THEN Append(pass.warnings,
                    OverlapWarning(claim.cell, pass.occupied[claim.cell], claim.key))
        ELSE pass.warnings]

\* The overlap pass: occupied and warnings after all claims.
RECURSIVE overlap_pass(_)
overlap_pass(claims) ==
    IF claims = <<>> THEN [occupied |-> <<>>, warnings |-> <<>>]
    ELSE claim_cell(overlap_pass(SubSeq(claims, 1, Len(claims) - 1)),
                    claims[Len(claims)])

\* Iteration order of edges.items(): rotated_edges builds a rotated map in
\* EDGE_ORDER; an unrotated map is a copy in the stored order, which is the
\* order of face_defs in which the classifier fills it.
StoredFaceOrder == <<"+x", "-x", "+z", "-z">>

edge_items(edges, rot_steps) ==
    LET present(face) == face \in DOMAIN edges
    IN  IF rot_steps % 4 = 0 THEN SelectSeq(StoredFaceOrder, present)
        ELSE SelectSeq(EDGE_ORDER, present)

\* ncell for transverse index i (0-based) of a face of piece p
neighbour_cell(p, edge_name, i) ==
    LET fp == footprint_of(p) IN
    CASE edge_name = "+z" -> <<p.gx + i, p.gz + fp[2], p.level>>
      [] edge_name = "-z" -> <<p.gx + i, p.gz - 1, p.level>>
      [] edge_name = "+x" -> <<p.gx + fp[1], p.gz + i, p.level>>
      [] edge_name = "-x" -> <<p.gx - 1, p.gz + i, p.level>>

OpenEdgeWarning(p, edge_name, ncell) ==
    [kind |-> "open_edge", gx |-> p.gx, gz |-> p.gz, face |-> edge_name,
     ncell |-> <<ncell[1], ncell[2]>>]

\* The warnings of one face of a piece: one per open cell whose neighbour
\* cell nobody claimed.
face_warnings_any_state(p, edge_name, edge_arr, occupied) ==
    LET dangling(i) == neighbour_cell(p, edge_name, i - 1) \notin occupied
        cells == SelectSeq([i \in 1..Len(edge_arr) |-> i], dangling)
    IN  [k \in 1..Len(cells) |->
            OpenEdgeWarning(p, edge_name, neighbour_cell(p, edge_name, cells[k] - 1))]

face_warnings_level_blind(p, edge_name, edge_arr, occupied) ==
    LET dangling(i) ==
            /\ edge_arr[i] = "open"
            /\ \A cell \in occupied :
                  <<cell[1], cell[2]>> #
                     <<neighbour_cell(p, edge_name, i - 1)[1],
                       neighbour_cell(p, edge_name, i - 1)[2]>>
        cells == SelectSeq([i \in 1..Len(edge_arr) |-> i], dangling)
    IN  [k \in 1..Len(cells) |->
            OpenEdgeWarning(p, edge_name, neighbour_cell(p, edge_name, cells[k] - 1))]

face_warnings(p, edge_name, edge_arr, occupied) ==
    LET dangling(i) ==
            /\ edge_arr[i] = "open"
            /\ neighbour_cell(p, edge_name, i - 1) \notin occupied
        cells == SelectSeq([i \in 1..Len(edge_arr) |-> i], dangling)
    IN  [k \in 1..Len(cells) |->
            OpenEdgeWarning(p, edge_name, neighbour_cell(p, edge_name, cells[k] - 1))]

\* The body of the loop of the open-edge pass for one piece: its warnings,
\* or that it raised KeyError.
Warned(warnings) == [raised |-> FALSE, warnings |-> warnings]
ValidateRaised == [raised |-> TRUE, warnings |-> <<>>]

piece_open_edges(p, catalog, occupied) ==
    LET mod == Get(CatalogGet(catalog, p.key), "modular", NoneDict) IN
    IF ~Truthy(mod) THEN Warned(<<>>)
    ELSE IF "edges" \notin DOMAIN mod THEN ValidateRaised
    ELSE LET edges == rotated_edges(mod.edges, p.rot_steps) IN
         IF IsKeyError(edges) THEN ValidateRaised
         ELSE LET order == edge_items(edges, p.rot_steps)
              IN  Warned(Flatten([k \in 1..Len(order) |->
                            face_warnings(p, order[k], edges[order[k]], occupied)]))

\* validate_layout: the overlap pass, then the open-edge pass when a
\* catalog is bound.
validate_layout(placed, catalog) ==
    LET overlaps == overlap_pass(layout_claims(placed))
        occupied == DOMAIN overlaps.occupied
        pieces == [n \in 1..Len(placed) |->
                      piece_open_edges(placed[n], catalog, occupied)]
    IN  IF catalog = <<>> THEN Warned(overlaps.warnings)
        ELSE IF \E n \in 1..Len(placed) : pieces[n].raised THEN ValidateRaised
        ELSE Warned(overlaps.warnings
                    \o Flatten([n \in 1..Len(placed) |-> pieces[n].warnings]))

(***************************************************************************)
(* Inputs of the kit.  The catalog holds what the classifier persists for  *)
(* a one-cell dead end, a one-cell closed block, a 2 x 3 room and a 1 x 2  *)
(* hall open on the first cell of its +x side, and                         *)
(* three partially populated entries: modular data without edges, modular  *)
(* data with one face only and no grid_footprint, and an item that was     *)
(* never classified.  The key "ghost" is in no catalog.                    *)
(***************************************************************************)
EndEdges == [f \in Faces |-> IF f = "+z" THEN <<"open">> ELSE <<"closed">>]
WallEdges == [f \in Faces |-> <<"closed">>]
RoomEdges ==
    [f \in Faces |->
        CASE f = "+z" -> <<"open", "closed">>
          [] f = "-z" -> <<"closed", "closed">>
          [] f = "+x" -> <<"closed", "closed", "open">>
          [] f = "-x" -> <<"closed", "closed", "closed">>]

HallEdges ==
    [f \in Faces |->
        CASE f = "+x" -> <<"open", "closed">>
          [] f = "-x" -> <<"closed", "closed">>
          [] OTHER -> <<"closed">>]

KitCatalog ==
    <<[key |-> "end", entry |-> [modular |-> ClassifiedModular(EndEdges)]],
      [key |-> "wall", entry |-> [modular |-> ClassifiedModular(WallEdges)]],
      [key |-> "room", entry |-> [modular |-> ClassifiedModular(RoomEdges)]],
      [key |-> "bare",
       entry |-> [modular |-> [piece_type |-> "room", grid_footprint |-> <<2, 1>>]]],
      [key |-> "partial",
       entry |-> [modular |-> [piece_type |-> "end_cap",
                               edges |-> [f \in {"+z"} |-> <<"open">>]]]],
      [key |-> "raw", entry |-> [cdn_url |-> "u"]],
      [key |-> "hall", entry |-> [modular |-> ClassifiedModular(HallEdges)]]>>

\* ModularKit(grid_size, level_height, catalog_items); a catalog that is
\* not given is the empty dict.
Kits ==
    {[grid_size |-> <<4, 4>>, level_height |-> 3, catalog_items |-> KitCatalog],
     [grid_size |-> <<2, 3>>, level_height |-> 1, catalog_items |-> <<>>]}

ReturnedNone == [raised |-> FALSE, value |-> None]
RaisedKeyError == [raised |-> TRUE, value |-> None]

\* The exception of a callback that raised, passed on to the caller.
RaisedByCallback == [raised |-> TRUE, value |-> "callback"]

\* What an invocation of self.place_fn can do: return, or raise.
CallbackRaises == IF place_fn = None THEN {FALSE} ELSE BOOLEAN

\* __init__
KitInit ==
    /\ pc = "start"
    /\ \E kit \in Kits :
          /\ grid_size = kit.grid_size
          /\ level_height = kit.level_height
          /\ kit_catalog = kit.catalog_items
    /\ place_fn = None
    /\ _placed = <<>>
    /\ kit_call = NoCall /\ place_calls = <<>> /\ kit_ret = ReturnedNone
    /\ RotIdle /\ ClsIdle /\ CovIdle /\ FindIdle /\ PieceIdle /\ BatchIdle /\ RasterIdle /\ SnapIdle

otherVars ==
    <<pc, rotVars, clsVars, covVars, findVars, pieceVars, batchVars,
      rasterVars, snapVars>>

\* kit.place_fn = place_fn
BindPlaceFn ==
    /\ place_fn' = "place_fn"
    /\ UNCHANGED <<grid_size, level_height, kit_catalog, _placed,
                   kit_call, place_calls, kit_ret, otherVars>>

PlaceMod_unguarded(key, gx, gz, rot_steps, level, scale) ==
    /\ _placed' = Append(_placed, place_mod_record(key, gx, gz, rot_steps, level))
    /\ place_calls' =
          <<place_mod_call(key, gx, gz, rot_steps, level, scale)>>
    /\ kit_call' = [op |-> "place_mod", key |-> key, gx |-> gx, gz |-> gz,
                    rot_steps |-> rot_steps, level |-> level, scale |-> scale]
    /\ \E raises \in CallbackRaises :
          kit_ret' = IF raises THEN RaisedByCallback ELSE ReturnedNone
    /\ UNCHANGED <<grid_size, level_height, kit_catalog, place_fn, otherVars>>

PlaceMod_callback_first(key, gx, gz, rot_steps, level, scale) ==
    /\ place_calls' =
          IF place_fn # None
          THEN <<place_mod_call(key, gx, gz, rot_steps, level, scale)>>
          ELSE <<>>
    /\ kit_call' = [op |-> "place_mod", key |-> key, gx |-> gx, gz |-> gz,
                    rot_steps |-> rot_steps, level |-> level, scale |-> scale]
    /\ \E raises \in CallbackRaises :
          /\ kit_ret' = IF raises THEN RaisedByCallback ELSE ReturnedNone
          /\ _placed' = IF raises THEN _placed
                        ELSE Append(_placed,
                                    place_mod_record(key, gx, gz, rot_steps, level))
    /\ UNCHANGED <<grid_size, level_height, kit_catalog, place_fn, otherVars>>

PlaceMod(key, gx, gz, rot_steps, level, scale) ==
    /\ _placed' = Append(_placed, place_mod_record(key, gx, gz, rot_steps, level))
    /\ place_calls' =
          IF place_fn # None
          THEN <<place_mod_call(key, gx, gz, rot_steps, level, scale)>>
          ELSE <<>>
    /\ kit_call' = [op |-> "place_mod", key |-> key, gx |-> gx, gz |-> gz,
                    rot_steps |-> rot_steps, level |-> level, scale |-> scale]
    /\ \E raises \in CallbackRaises :
          kit_ret' = IF raises THEN RaisedByCallback ELSE ReturnedNone
    /\ UNCHANGED <<grid_size, level_height, kit_catalog, place_fn, otherVars>>

PlaceRoom(key, anchor_gx, anchor_gz, rot_steps, level, scale) ==
    /\ _placed' = Append(_placed,
                         place_room_record(key, anchor_gx, anchor_gz, rot_steps, level))
    /\ place_calls' =
          IF place_fn # None
          THEN <<place_room_call(key, anchor_gx, anchor_gz, rot_steps, level, scale)>>
          ELSE <<>>
    /\ kit_call' = [op |-> "place_room", key |-> key, gx |-> anchor_gx,
                    gz |-> anchor_gz, rot_steps |-> rot_steps, level |-> level,
                    scale |-> scale]
    /\ \E raises \in CallbackRaises :
          kit_ret' = IF raises THEN RaisedByCallback ELSE ReturnedNone
    /\ UNCHANGED <<grid_size, level_height, kit_catalog, place_fn, otherVars>>

\* dir_map[direction] raises KeyError before anything is placed.  The loop
\* calls place_mod once per segment and ends at the first call whose
\* callback raises: `failing` is that segment, 0 when none raises.
PlaceCorridorRun(key, start_gx, start_gz, direction, length, level, scale) ==
    /\ kit_call' = [op |-> "place_corridor_run", key |-> key, gx |-> start_gx,
                    gz |-> start_gz, direction |-> direction, length |-> length,
                    level |-> level, scale |-> scale]
    /\ IF direction \in DOMAIN dir_map
       THEN \E failing \in IF place_fn = None THEN {0} ELSE 0..Max(length, 0) :
            LET segments == IF failing = 0 THEN Max(length, 0) ELSE failing IN
            /\ _placed' = _placed \o SubSeq(corridor_records(key, start_gx, start_gz,
                                                              direction, length, level),
                                             1, segments)
            /\ place_calls' =
                  IF place_fn # None
                  THEN SubSeq(corridor_calls(key, start_gx, start_gz, direction,
                                             length, level, scale), 1, segments)
                  ELSE <<>>
            /\ kit_ret' = IF failing = 0 THEN ReturnedNone ELSE RaisedByCallback
       ELSE /\ _placed' = _placed
            /\ place_calls' = <<>>
            /\ kit_ret' = RaisedKeyError
    /\ UNCHANGED <<grid_size, level_height, kit_catalog, place_fn, otherVars>>

ValidateLayout_draining ==
    /\ kit_call' = [op |-> "validate_layout"]
    /\ place_calls' = <<>>
    /\ kit_ret' = LET outcome == validate_layout(_placed, kit_catalog)
                  IN  [raised |-> outcome.raised, value |-> outcome.warnings]
    /\ _placed' = SubSeq(_placed, 1, Len(_placed) - 1)
    /\ UNCHANGED <<grid_size, level_height, kit_catalog, place_fn, otherVars>>

ValidateLayout ==
    /\ kit_call' = [op |-> "validate_layout"]
    /\ place_calls' = <<>>
    /\ kit_ret' = LET outcome == validate_layout(_placed, kit_catalog)
                  IN  [raised |-> outcome.raised, value |-> outcome.warnings]
    /\ UNCHANGED <<grid_size, level_height, kit_catalog, place_fn, _placed, otherVars>>

\* find_piece(kit.catalog_items, piece_type, needs_open, tags)
KitFindPiece(type, needs_open, tags) ==
    /\ kit_call' = [op |-> "find_piece", piece_type |-> type,
                    needs_open |-> needs_open, tags |-> tags]
    /\ place_calls' = <<>>
    /\ kit_ret' = LET outcome == find_piece(kit_catalog, type, needs_open, tags)
                  IN  [raised |-> outcome.raised, value |-> outcome.results]
    /\ UNCHANGED <<grid_size, level_height, kit_catalog, place_fn, _placed, otherVars>>

(***************************************************************************)
(* The caller of a kit.  It binds the callback, if at all, before it       *)
(* places anything.  Its first placement is any of a wide range of calls;  *)
(* later placements, up to MaxPlaced pieces in all, go on the origin and   *)
(* the four cells next to it, or above one of these.  It validates and    *)
(* searches at any time.                                                   *)
(***************************************************************************)
Origin == <<0, 0>>
NextToOrigin == {<<1, 0>>, <<-1, 0>>, <<0, 1>>, <<0, -1>>}
Elsewhere == {<<2, 5>>, <<-1, 3>>}

PlacedKeys == {"end", "wall", "room", "bare", "partial", "raw", "ghost", "hall"}

Directions == Faces \cup {"up"}

FirstPlacement ==
    \/ \E key \in PlacedKeys, rot_steps \in 0..3 : PlaceMod(key, 0, 0, rot_steps, 0, 1)
    \/ \E cell \in Elsewhere, level \in {0, 2}, scale \in {1, 3} :
          PlaceMod("wall", cell[1], cell[2], 2, level, scale)
    \/ \E key \in PlacedKeys : PlaceRoom(key, 0, 0, 0, 0, 1)
    \/ \E rot_steps \in 1..3 : PlaceRoom("hall", 0, 0, rot_steps, 0, 1)
    \/ \E cell \in Elsewhere, level \in {0, 2}, scale \in {1, 3} :
          PlaceRoom("room", cell[1], cell[2], 1, level, scale)
    \/ \E direction \in Directions, length \in (-1)..MaxPlaced :
          PlaceCorridorRun("wall", 0, 0, direction, length, 0, 1)
    \/ \E direction \in Directions :
          PlaceCorridorRun("end", -1, 3, direction, MaxPlaced, 2, 3)

LaterPlacement ==
    \/ \E cell \in {Origin} \cup NextToOrigin :
          PlaceMod("wall", cell[1], cell[2], 0, 0, 1)
    \/ PlaceMod("end", 0, 0, 0, 0, 1)
    \/ PlaceRoom("room", 0, 0, 0, 0, 1)
    \/ \E length \in 0..(MaxPlaced - Len(_placed)) :
          PlaceCorridorRun("wall", 0, 0, "+x", length, 0, 1)
    \/ PlaceCorridorRun("wall", 0, 0, "up", 1, 0, 1)
    \/ \E level \in {0, 1} : PlaceMod("ghost", 0, 1, 0, level, 1)

KitNext ==
    \/ _placed = <<>> /\ place_fn = None /\ BindPlaceFn
    \/ _placed = <<>> /\ FirstPlacement
    \/ Len(_placed) \in 1..(MaxPlaced - 1) /\ LaterPlacement
    \/ ValidateLayout
    \/ \E needs_open \in {NoneDict, [f \in {"+z"} |-> TRUE]} :
          KitFindPiece(None, needs_open, <<>>)

SpecKit == KitInit /\ [][KitNext]_vars

\* A caller that stacks up to MaxStack pieces on two cells and two levels,
\* one of them a 2 x 3 room.
OverlapNext ==
    \/ /\ Len(_placed) < MaxStack
       /\ \/ \E key \in {"end", "wall"}, gx \in {2, 3} : PlaceMod(key, gx, 5, 0, 0, 1)
          \/ PlaceMod("wall", 2, 5, 0, 1, 1)
    \/ Len(_placed) < MaxStack /\ PlaceRoom("room", 2, 5, 0, 0, 1)
    \/ ValidateLayout

SpecOverlap == KitInit /\ [][OverlapNext]_vars

(***************************************************************************)
(* Properties of validate_layout and the placement calls.                  *)
(***************************************************************************)
Validated == kit_call.op = "validate_layout" /\ ~kit_ret.raised

IsOverlap(w) == w.kind = "overlap"
IsOpenEdge(w) == w.kind = "open_edge"

\* The claims made on the cell of claim i before claim i.
EarlierClaims(i) ==
    {j \in 1..(i - 1) :
        layout_claims(_placed)[j].cell = layout_claims(_placed)[i].cell}

LatestOf(indices) == CHOOSE j \in indices : \A k \in indices : k <= j

\* One warning per claim on an already claimed cell, in claim order, each
\* naming the latest earlier claimant of the cell as its owner.
ExpectedOverlaps ==
    LET claims == layout_claims(_placed)
        repeated(i) == EarlierClaims(i) # {}
        again == SelectSeq([i \in 1..Len(claims) |-> i], repeated)
    IN  [k \in 1..Len(again) |->
            OverlapWarning(claims[again[k]].cell,
                           claims[LatestOf(EarlierClaims(again[k]))].key,
                           claims[again[k]].key)]

TwoOnOneCell ==
    /\ Len(_placed) = 2
    /\ footprint_of(_placed[1]) = <<1, 1>> /\ footprint_of(_placed[2]) = <<1, 1>>
    /\ _placed[1].gx = _placed[2].gx /\ _placed[1].gz = _placed[2].gz
    /\ _placed[1].level = _placed[2].level

\* C11: the overlap warnings of validate_layout are, in placement order,
\* exactly one per footprint cell that was already claimed, naming the
\* owner recorded last, the new key and the cell (level included, so cells
\* on different levels never overlap); two 1x1 pieces on one cell give
\* exactly one overlap warning naming both keys.
OverlapPass ==
    Validated =>
        /\ SelectSeq(kit_ret.value, IsOverlap) = ExpectedOverlaps
        /\ TwoOnOneCell =>
              SelectSeq(kit_ret.value, IsOverlap) =
                 <<OverlapWarning(<<_placed[1].gx, _placed[1].gz, _placed[1].level>>,
                                  _placed[1].key, _placed[2].key)>>
        /\ \A n \in 1..Len(kit_ret.value) :
              IsOverlap(kit_ret.value[n]) =>
                 \E a, b \in 1..Len(_placed) :
                    /\ a < b
                    /\ _placed[a].level = kit_ret.value[n].cell[3]
                    /\ _placed[b].level = kit_ret.value[n].cell[3]

\* Three pieces stacked on cell (2, 5, 0): the second warning names the
\* second piece, not the first, as the owner.
OverlapPassWitness ==
    /\ Validated
    /\ Len(_placed) = 3
    /\ \A n \in 1..3 : _placed[n].gx = 2 /\ _placed[n].gz = 5 /\ _placed[n].level = 0
    /\ _placed[1].key = "end" /\ _placed[2].key = "wall" /\ _placed[3].key = "end"
    /\ \A n \in 1..3 : "footprint" \notin DOMAIN _placed[n]
    /\ SelectSeq(kit_ret.value, IsOverlap) =
          <<OverlapWarning(<<2, 5, 0>>, "end", "wall"),
            OverlapWarning(<<2, 5, 0>>, "wall", "end")>>

\* The catalog's modular data of a placed piece (empty when it has none).
ModularData(p) == Get(CatalogGet(kit_catalog, p.key), "modular", EmptyDict)

\* The faces on which the rotated edge map of a one-cell piece is open.
RotatedOpenFaces(p) ==
    LET edges == rotated_edges(ModularData(p).edges, p.rot_steps)
    IN  {f \in DOMAIN edges : edges[f] = <<"open">>}

\* A 1x1 piece with one-cell edge arrays in the catalog.
OneCellPiece(p) ==
    /\ footprint_of(p) = <<1, 1>>
    /\ "edges" \in DOMAIN ModularData(p)
    /\ ~IsKeyError(rotated_edges(ModularData(p).edges, p.rot_steps))
    /\ \A f \in DOMAIN ModularData(p).edges : Len(ModularData(p).edges[f]) = 1

\* The cell next to (gx, gz) in the direction of a face.
Adjacent(p, f) ==
    CASE f = "+z" -> <<p.gx, p.gz + 1>>
      [] f = "-z" -> <<p.gx, p.gz - 1>>
      [] f = "+x" -> <<p.gx + 1, p.gz>>
      [] f = "-x" -> <<p.gx - 1, p.gz>>

\* C12: with a catalog bound, a lone 1x1 piece whose rotated edge map is
\* open on exactly one face f gets exactly one open-edge warning, for f;
\* once a piece with no open faces is also placed on the cell next to it in
\* direction f, on the same level, validate_layout returns the empty list.
DanglingEdge ==
    Validated /\ _placed # <<>> /\ OneCellPiece(_placed[1]) =>
        \A f \in Faces :
            RotatedOpenFaces(_placed[1]) = {f} =>
                /\ Len(_placed) = 1 =>
                      kit_ret.value =
                         <<OpenEdgeWarning(_placed[1], f, Adjacent(_placed[1], f))>>
                /\ ( /\ Len(_placed) = 2
                     /\ OneCellPiece(_placed[2])
                     /\ RotatedOpenFaces(_placed[2]) = {}
                     /\ <<_placed[2].gx, _placed[2].gz>> = Adjacent(_placed[1], f)
                     /\ _placed[2].level = _placed[1].level )
                   => kit_ret.value = <<>>

\* A dead end turned to open on -x at the origin, closed off by a block on
\* (-1, 0): nothing to warn about.
DanglingEdgeWitness ==
    /\ Validated
    /\ Len(_placed) = 2
    /\ OneCellPiece(_placed[1])
    /\ _placed[1].gx = 0 /\ _placed[1].gz = 0 /\ _placed[1].rot_steps = 3
    /\ RotatedOpenFaces(_placed[1]) = {"-x"}
    /\ OneCellPiece(_placed[2]) /\ RotatedOpenFaces(_placed[2]) = {}
    /\ _placed[2].gx = -1 /\ _placed[2].gz = 0
    /\ kit_ret.value = <<>>

\* C13 (as claimed): validate_layout never raises; whatever was placed and
\* whatever the bound catalog holds, it returns a list of warnings.
ValidateNeverRaises ==
    kit_call.op = "validate_layout" =>
        /\ ~kit_ret.raised
        /\ \A n \in 1..Len(kit_ret.value) :
              IsOverlap(kit_ret.value[n]) \/ IsOpenEdge(kit_ret.value[n])

\* The footprint place_room is to use for a key: the catalog's, or [1, 1].
CatalogFootprint(key) ==
    IF \E i \in 1..Len(kit_catalog) :
          /\ kit_catalog[i].key = key
          /\ "modular" \in DOMAIN kit_catalog[i].entry
          /\ "grid_footprint" \in DOMAIN kit_catalog[i].entry.modular
    THEN (CHOOSE e \in Range(kit_catalog) : e.key = key).entry.modular.grid_footprint
    ELSE <<1, 1>>

\* C14: place_room appends a record holding the anchor corner and the
\* catalog footprint of the key ([1, 1] when the key or its footprint is
\* absent), and passes the callback the footprint centre
\* ((anchor_gx + fp_x/2) * gridX, level * levelHeight,
\* (anchor_gz + fp_z/2) * gridZ), here in half units; footprint [2, 3] at
\* anchor (0, 0) on a (4, 4) grid gives X = 4 and Z = 6.
RoomCentering ==
    kit_call.op = "place_room" =>
        LET fp == CatalogFootprint(kit_call.key) IN
        /\ _placed # <<>>
        /\ _placed[Len(_placed)] =
              [key |-> kit_call.key, gx |-> kit_call.gx, gz |-> kit_call.gz,
               rot_steps |-> kit_call.rot_steps, level |-> kit_call.level,
               footprint |-> fp]
        /\ place_fn = None => place_calls = <<>>
        /\ place_fn # None =>
              /\ Len(place_calls) = 1
              /\ place_calls[1].key = kit_call.key
              /\ place_calls[1].position =
                    <<(2 * kit_call.gx + fp[1]) * grid_size[1],
                      2 * kit_call.level * level_height,
                      (2 * kit_call.gz + fp[2]) * grid_size[2]>>
              /\ ( /\ fp = <<2, 3>> /\ grid_size = <<4, 4>>
                   /\ kit_call.gx = 0 /\ kit_call.gz = 0 )
                 => /\ place_calls[1].position[1] = 2 * 4
                    /\ place_calls[1].position[3] = 2 * 6

\* The 2 x 3 room anchored at the origin of the (4, 4) grid, callback bound.
RoomCenteringWitness ==
    /\ kit_call.op = "place_room"
    /\ kit_call.key = "room" /\ kit_call.gx = 0 /\ kit_call.gz = 0
    /\ grid_size = <<4, 4>>
    /\ _placed[Len(_placed)].footprint = <<2, 3>>
    /\ _placed[Len(_placed)].gx = 0 /\ _placed[Len(_placed)].gz = 0
    /\ Len(place_calls) = 1
    /\ place_calls[1].position[1] = 8 /\ place_calls[1].position[3] = 12

\* C15: place_mod appends exactly one record {key, gx, gz, rot_steps,
\* level}, which has no footprint of its own and so is validated as the one
\* cell (gx, gz, level), and passes the callback (gx * gridX,
\* level * levelHeight, gz * gridZ) (here in half units), rot * 90 degrees
\* and the given scale.
PlaceModRecord ==
    [][kit_call'.op = "place_mod" =>
        LET record == [key |-> kit_call'.key, gx |-> kit_call'.gx,
                       gz |-> kit_call'.gz, rot_steps |-> kit_call'.rot_steps,
                       level |-> kit_call'.level]
        IN  /\ _placed' = Append(_placed, record)
            /\ footprint_cells(record) =
                  <<<<kit_call'.gx, kit_call'.gz, kit_call'.level>>>>
            /\ place_fn = None => place_calls' = <<>>
            /\ place_fn # None =>
                  place_calls' =
                     <<[key |-> kit_call'.key,
                        position |-> <<2 * kit_call'.gx * grid_size[1],
                                       2 * kit_call'.level * level_height,
                                       2 * kit_call'.gz * grid_size[2]>>,
                        facing_deg |-> kit_call'.rot_steps * 90,
                        scale |-> kit_call'.scale]>>]_vars

\* place_mod("wall", 2, 5, rot_steps=2, level=2, scale=3) on the (2, 3)
\* grid with level height 1 and the callback bound.
PlaceModRecordWitness ==
    /\ kit_call.op = "place_mod"
    /\ grid_size = <<2, 3>> /\ place_fn # None
    /\ _placed = <<[key |-> "wall", gx |-> 2, gz |-> 5, rot_steps |-> 2, level |-> 2]>>
    /\ place_calls = <<[key |-> "wall", position |-> <<8, 4, 30>>,
                        facing_deg |-> 180, scale |-> 3]>>

\* The unit step of a corridor direction.
UnitStep(direction) ==
    CASE direction = "+x" -> <<1, 0>>
      [] direction = "-x" -> <<-1, 0>>
      [] direction = "+z" -> <<0, 1>>
      [] direction = "-z" -> <<0, -1>>

\* C16: a place_corridor_run call that returns has appended exactly
\* max(length, 0) one-cell records, the i-th (from 0) at
\* (sx + i*dx, sz + i*dz) on the given level, with rotation 0 for +z and -z
\* and rotation 1 for both +x and -x.
CorridorRun ==
    [][(kit_call'.op = "place_corridor_run" /\ ~kit_ret'.raised) =>
        LET step == UnitStep(kit_call'.direction)
            rot == IF kit_call'.direction \in {"+x", "-x"} THEN 1 ELSE 0
            added == Len(_placed') - Len(_placed)
        IN  /\ added = Max(kit_call'.length, 0)
            /\ \A n \in 1..Len(_placed) : _placed'[n] = _placed[n]
            /\ \A i \in 0..(added - 1) :
                  _placed'[Len(_placed) + i + 1] =
                     [key |-> kit_call'.key,
                      gx |-> kit_call'.gx + i * step[1],
                      gz |-> kit_call'.gz + i * step[2],
                      rot_steps |-> rot,
                      level |-> kit_call'.level]]_vars

\* A run of two from (-1, 3) towards -x on level 2.
CorridorRunWitness ==
    /\ kit_call.op = "place_corridor_run"
    /\ kit_call.direction = "-x" /\ kit_call.length = 2
    /\ _placed = <<[key |-> "end", gx |-> -1, gz |-> 3, rot_steps |-> 1, level |-> 2],
                   [key |-> "end", gx |-> -2, gz |-> 3, rot_steps |-> 1, level |-> 2]>>

\* C17: the placed-piece sequence is append-only.  Every call leaves the
\* records already there at their index, unchanged, and leaves the catalog
\* unchanged; validate_layout and find_piece leave the sequence unchanged,
\* and validate_layout called again returns what it returned before.
AppendOnly ==
    [][ /\ Len(_placed') >= Len(_placed)
        /\ \A n \in 1..Len(_placed) : _placed'[n] = _placed[n]
        /\ kit_catalog' = kit_catalog
        /\ kit_call'.op \in {"validate_layout", "find_piece"} => _placed' = _placed
        /\ (kit_call.op = "validate_layout" /\ kit_call'.op = "validate_layout")
              => kit_ret' = kit_ret ]_vars

\* A room and then a block were placed, and the layout was validated.
AppendOnlyWitness ==
    /\ Validated
    /\ Len(_placed) = 2
    /\ _placed[1].key = "room" /\ "footprint" \in DOMAIN _placed[1]
    /\ _placed[2].key = "wall" /\ "footprint" \notin DOMAIN _placed[2]
    /\ kit_ret.value # <<>>

\* The modular data of catalog entry i lacks grid_footprint or edges.
HasGap(i) ==
    /\ "modular" \in DOMAIN kit_catalog[i].entry
    /\ \/ "grid_footprint" \notin DOMAIN kit_catalog[i].entry.modular
       \/ "edges" \notin DOMAIN kit_catalog[i].entry.modular

GapKeys == {kit_catalog[i].key : i \in {j \in 1..Len(kit_catalog) : HasGap(j)}}

\* C18 (as claimed): with catalog entries whose modular data lacks
\* grid_footprint or edges, place_room, find_piece with needs_open and
\* validate_layout complete without raising; place_room uses [1, 1] for an
\* entry without grid_footprint.
StructuralGapsTolerated ==
    GapKeys # {} =>
        /\ (kit_call.op = "place_room" /\ kit_call.key \in GapKeys) =>
              /\ kit_ret # RaisedKeyError
              /\ "grid_footprint" \notin DOMAIN ModularData(_placed[Len(_placed)])
                    => _placed[Len(_placed)].footprint = <<1, 1>>
        /\ (kit_call.op = "find_piece" /\ Truthy(kit_call.needs_open)) =>
              ~kit_ret.raised
        /\ ( /\ kit_call.op = "validate_layout"
             /\ \E n \in 1..Len(_placed) : _placed[n].key \in GapKeys )
           => ~kit_ret.raised

(***************************************************************************)
(* analyze_coverage: the coverage ratio of each transverse cell of a       *)
(* rasterized face.  The raster is a boolean image of shape (h, w), row 1  *)
(* at the ceiling; the exclusion fractions are in hundredths; a ratio is   *)
(* the pair <<filled pixels, total pixels>>, and 0.0 is <<0, 1>>.          *)
(***************************************************************************)
FLOOR_EXCLUDE == 15      \* 0.15
CEILING_EXCLUDE == 15    \* 0.15
SIDE_EXCLUDE == 15       \* 0.15

Min(a, b) == IF a < b THEN a ELSE b

\* int(round(num / den)) for num >= 0, den > 0: a half goes to the even integer
round(num, den) ==
    LET q == num \div den
        r == num % den
    IN  IF 2 * r < den THEN q
        ELSE IF 2 * r > den THEN q + 1
        ELSE IF q % 2 = 0 THEN q ELSE q + 1

\* top_row and bottom_row of the passage zone, clamped
passage_rows(h, floor_exclude, ceiling_exclude) ==
    LET top_row == Max(0, Min(round(h * ceiling_exclude, 100), h))
        bottom_row == Max(top_row, Min(round(h * (100 - floor_exclude), 100), h))
    IN  <<top_row, bottom_row>>

\* cell_start and cell_end of segment i (from 0) of a passage pw pixels wide
cell_bounds(i, pw, cells) ==
    LET cell_start == round(i * pw, cells)
        cell_end == Min(Max(cell_start + 1, round((i + 1) * pw, cells)), pw)
    IN  <<cell_start, cell_end>>

\* col_start and col_end of the columns measured in a cell
measured_columns_trim_one_side(cell, side_exclude) ==
    LET side_px == round((cell[2] - cell[1]) * side_exclude, 100)
    IN  IF cell[1] + side_px >= cell[2] THEN cell
        ELSE <<cell[1] + side_px, cell[2]>>

measured_columns(cell, side_exclude) ==
    LET side_px == round((cell[2] - cell[1]) * side_exclude, 100)
        col_start == cell[1] + side_px
        col_end == cell[2] - side_px
    IN  IF col_start >= col_end THEN cell ELSE <<col_start, col_end>>

\* segment.sum() and segment.size of passage[:, col_start:col_end]
segment_ratio(px, rows, cols) ==
    LET region == ((rows[1] + 1)..rows[2]) \X ((cols[1] + 1)..cols[2])
        total_pixels == Cardinality(region)
    IN  IF total_pixels = 0 THEN <<0, 1>>
        ELSE <<Cardinality({at \in region : px[at[1]][at[2]]}), total_pixels>>

analyze_coverage(a_raster, cells, floor_exclude, ceiling_exclude, side_exclude) ==
    LET h == a_raster.shape[1]
        w == a_raster.shape[2]
        rows == passage_rows(h, floor_exclude, ceiling_exclude)
    IN  IF rows[2] - rows[1] = 0 \/ w = 0
        THEN [i \in 1..cells |-> <<0, 1>>]
        ELSE [i \in 1..cells |->
                segment_ratio(a_raster.px, rows,
                    measured_columns(cell_bounds(i - 1, w, cells), side_exclude))]

(***************************************************************************)
(* Inputs of analyze_coverage: images up to MaxWidth pixels wide whose     *)
(* columns are empty, full, filled only in the top and bottom rows, or     *)
(* filled in the upper half; cell counts from none to more than the image  *)
(* has columns; the default exclusions and larger ones.                    *)
(***************************************************************************)
ColumnPatterns == {"empty", "full", "trim_only", "upper"}

Filled(pattern, r, h) ==
    CASE pattern = "empty" -> FALSE
      [] pattern = "full" -> TRUE
      [] pattern = "trim_only" -> r = 1 \/ r = h
      [] pattern = "upper" -> 2 * r <= h

RasterOf(h, columns) ==
    [shape |-> <<h, Len(columns)>>,
     px |-> [r \in 1..h |-> [c \in 1..Len(columns) |-> Filled(columns[c], r, h)]]]

RasterHeights == {0, 1, 4}
CellCounts == 0..3
RowExcludes == {<<FLOOR_EXCLUDE, CEILING_EXCLUDE>>, <<60, 60>>, <<0, 50>>}
SideExcludes == {SIDE_EXCLUDE, 50}

RasterInit ==
    /\ pc = "start"
    /\ \E h \in RasterHeights, w \in 0..MaxWidth :
       \E columns \in [1..w -> ColumnPatterns] :
          raster = RasterOf(h, columns)
    /\ \E cells \in CellCounts, rows \in RowExcludes, side \in SideExcludes :
          cov_args = [op |-> "analyze_coverage", cells |-> cells,
                      floor_exclude |-> rows[1], ceiling_exclude |-> rows[2],
                      side_exclude |-> side]
    /\ ratios = <<>>
    /\ RotIdle /\ ClsIdle /\ CovIdle /\ FindIdle /\ KitIdle /\ PieceIdle
    /\ BatchIdle /\ SnapIdle

AnalyzeCoverage ==
    /\ pc = "start"
    /\ ratios' = analyze_coverage(raster, cov_args.cells, cov_args.floor_exclude,
                                  cov_args.ceiling_exclude, cov_args.side_exclude)
    /\ pc' = "analyzed"
    /\ UNCHANGED <<raster, cov_args, rotVars, clsVars, covVars, findVars,
                   kitVars, pieceVars, batchVars, snapVars>>

RasterNext == AnalyzeCoverage

SpecRaster == RasterInit /\ [][RasterNext]_vars

(***************************************************************************)
(* classify_piece.  Of a mesh the model keeps what the classifier reads:   *)
(* the bounding-box height in tenths of a unit, twice the ratio of its     *)
(* width and depth to the grid cell, and for each face the triangles with  *)
(* the two facts get_slab_triangles tests (centroid inside the slab, face  *)
(* normal component along the face axis in hundredths, and what its       *)
(* projection fills of each transverse cell of the face).  The rasters     *)
(* have RenderRes pixel columns per transverse cell and RenderRes rows.    *)
(***************************************************************************)
NORMAL_THRESHOLD == 10     \* normal_threshold=0.1
MIN_HEIGHT == 5            \* height < 0.5

Abs(n) == IF n < 0 THEN -n ELSE n

\* mask & normal_mask; (None, None) is the empty selection
get_slab_triangles_inclusive(triangles) ==
    LET kept(t) == t.in_slab /\ Abs(t.normal) >= NORMAL_THRESHOLD
    IN  SelectSeq(triangles, kept)

get_slab_triangles(triangles) ==
    LET kept(t) == t.in_slab /\ Abs(t.normal) > NORMAL_THRESHOLD
    IN  SelectSeq(triangles, kept)

\* max(1, round(extent / grid)): Python rounds a half to the even integer
grid_cells_unclamped(extent_halves) == round(extent_halves, 2)

grid_cells(extent_halves) ==
    LET below == extent_halves \div 2
        rounded == IF extent_halves % 2 = 0 THEN below
                   ELSE IF below % 2 = 0 THEN below ELSE below + 1
    IN  Max(1, rounded)

\* perp_cells of face_defs
perp_cells(face_name, cells_x, cells_z) ==
    IF face_name \in {"+x", "-x"} THEN cells_z ELSE cells_x

\* The image of the selected triangles: a pixel is set when the polygon of
\* one of them covers it; res_u = RENDER_RES * perp_cells columns.
rasterize_triangles(selected, perp) ==
    [shape |-> <<RenderRes, RenderRes * perp>>,
     px |-> [r \in 1..RenderRes |-> [c \in 1..(RenderRes * perp) |->
               \E k \in 1..Len(selected) :
                  Filled(selected[k].drawn[((c - 1) \div RenderRes) + 1], r, RenderRes)]]]

classify_face_last_state(face, perp) ==
    LET verts == get_slab_triangles(face.triangles) IN
    IF verts = <<>>
    THEN [states |-> [i \in 1..perp |-> "open"],
          coverages |-> [i \in 1..perp |-> <<0, 1>>],
          methods |-> [i \in 1..perp |-> "slab_analysis"],
          raster |-> None,
          review |-> FALSE]
    ELSE LET raster_of_face == rasterize_triangles(verts, perp)
             coverages == analyze_coverage(raster_of_face, perp, FLOOR_EXCLUDE,
                                           CEILING_EXCLUDE, SIDE_EXCLUDE)
             classified == [i \in 1..Len(coverages) |-> classify_coverage(coverages[i])]
         IN  [states |-> [i \in 1..Len(coverages) |-> classified[i][1]],
              coverages |-> coverages,
              methods |-> [i \in 1..Len(coverages) |-> classified[i][2]],
              raster |-> "raster",
              review |-> coverages # <<>> /\ classified[Len(coverages)][1] = "uncertain"]

\* One iteration of the loop over face_defs: the states, coverages and
\* methods of the face, its raster, and whether it asked for a review.
classify_face(face, perp) ==
    LET verts == get_slab_triangles(face.triangles) IN
    IF verts = <<>>
    THEN [states |-> [i \in 1..perp |-> "open"],
          coverages |-> [i \in 1..perp |-> <<0, 1>>],
          methods |-> [i \in 1..perp |-> "slab_analysis"],
          raster |-> None,
          review |-> FALSE]
    ELSE LET raster_of_face == rasterize_triangles(verts, perp)
             coverages == analyze_coverage(raster_of_face, perp, FLOOR_EXCLUDE,
                                           CEILING_EXCLUDE, SIDE_EXCLUDE)
             classified == [i \in 1..Len(coverages) |-> classify_coverage(coverages[i])]
         IN  [states |-> [i \in 1..Len(coverages) |-> classified[i][1]],
              coverages |-> coverages,
              methods |-> [i \in 1..Len(coverages) |-> classified[i][2]],
              raster |-> "raster",
              review |-> \E i \in 1..Len(coverages) : classified[i][1] = "uncertain"]

classify_piece(a_mesh) ==
    IF a_mesh.height < MIN_HEIGHT
    THEN [skip |-> TRUE, reason |-> "floor_tile", height |-> a_mesh.height]
    ELSE LET cells_x == grid_cells(a_mesh.width)
             cells_z == grid_cells(a_mesh.depth)
             done == [f \in Faces |->
                        classify_face(a_mesh.faces[f], perp_cells(f, cells_x, cells_z))]
             edges == [f \in Faces |-> done[f].states]
             type == derive_piece_type(_simplify_edges(edges))
         IN  [modular |->
                [edges |-> edges,
                 coverage |-> [f \in Faces |-> done[f].coverages],
                 methods |-> [f \in Faces |-> done[f].methods],
                 piece_type |-> type,
                 default_rotation |->
                    derive_default_rotation(_simplify_edges(edges), type),
                 grid_footprint |-> <<cells_x, cells_z>>,
                 needs_review |-> \E f \in Faces : done[f].review],
              slab_rasters |-> [f \in Faces |-> done[f].raster]]

(***************************************************************************)
(* Inputs of classify_piece: flat and tall meshes of one or two cells,     *)
(* with, on each face, triangles that are all outside the slab, inside it  *)
(* with a normal exactly at the threshold, or inside it and facing the     *)
(* side; each cell of a rasterized face is empty, filled in its upper half *)
(* or full.                                                                *)
(***************************************************************************)
CellPatterns == {"empty", "upper", "full"}

WholeFace(perp) == [i \in 1..perp |-> "full"]

OutsideSlab(perp) ==
    <<[in_slab |-> FALSE, normal |-> 100, drawn |-> WholeFace(perp)]>>
AtThreshold(perp) ==
    <<[in_slab |-> TRUE, normal |-> 10, drawn |-> WholeFace(perp)],
      [in_slab |-> TRUE, normal |-> 0, drawn |-> WholeFace(perp)]>>
FacingSide(cells) ==
    <<[in_slab |-> TRUE, normal |-> -100, drawn |-> cells],
      [in_slab |-> FALSE, normal |-> 11, drawn |-> WholeFace(Len(cells))]>>

TriangleLists(perp) ==
    {OutsideSlab(perp), AtThreshold(perp)}
    \cup {FacingSide(cells) : cells \in ArraysOfLen(CellPatterns, perp)}


\* <<width, depth>> as twice their ratio to the grid cell
Extents == {<<2, 2>>, <<1, 3>>, <<5, 2>>}

Heights == {4, 5, 30}

\* The faces a mesh can show towards a side of perp cells.
MeshFaces(perp) ==
    {[triangles |-> t] : t \in TriangleLists(perp)}

PieceInit ==
    /\ pc = "start"
    /\ \E extent \in Extents, height \in Heights :
       \E xs \in [{"+x", "-x"} -> MeshFaces(grid_cells(extent[2]))],
          zs \in [{"+z", "-z"} -> MeshFaces(grid_cells(extent[1]))] :
          mesh = [height |-> height, width |-> extent[1], depth |-> extent[2],
                  faces |-> [f \in Faces |->
                               IF f \in {"+x", "-x"} THEN xs[f] ELSE zs[f]]]
    /\ piece_result = None
    /\ RotIdle /\ ClsIdle /\ CovIdle /\ FindIdle /\ KitIdle /\ BatchIdle /\ RasterIdle /\ SnapIdle

ClassifyPiece ==
    /\ pc = "start"
    /\ piece_result' = classify_piece(mesh)
    /\ pc' = "classified"
    /\ UNCHANGED <<mesh, rotVars, clsVars, covVars, findVars, kitVars, batchVars, rasterVars, snapVars>>

PieceNext == ClassifyPiece

SpecPiece == PieceInit /\ [][PieceNext]_vars

\* No triangle of the face has its centroid in the slab and a normal
\* component above 0.1 along the face axis.
NothingSelected(f) ==
    \A i \in 1..Len(mesh.faces[f].triangles) :
        ~(mesh.faces[f].triangles[i].in_slab
            /\ (mesh.faces[f].triangles[i].normal > 10
                  \/ mesh.faces[f].triangles[i].normal < -10))

Classified == pc = "classified" /\ "modular" \in DOMAIN piece_result

\* The transverse cells of a face of the classified piece.
TransverseCells(f) ==
    IF f \in {"+x", "-x"} THEN piece_result.modular.grid_footprint[2]
    ELSE piece_result.modular.grid_footprint[1]

\* C20: a face whose slab selects no triangles is open at every one of its
\* transverse cells, with coverage 0.0 for each, and does not set
\* needs_review: needs_review is then owed to an uncertain cell of a face
\* that did select triangles.
EmptySlabOpen ==
    Classified =>
        /\ \A f \in Faces :
              NothingSelected(f) =>
                 /\ piece_result.modular.edges[f] =
                       [i \in 1..TransverseCells(f) |-> "open"]
                 /\ Len(piece_result.modular.coverage[f]) = TransverseCells(f)
                 /\ \A i \in 1..TransverseCells(f) :
                       piece_result.modular.coverage[f][i][1] = 0
        /\ piece_result.modular.needs_review =>
              \E f \in Faces :
                 /\ ~NothingSelected(f)
                 /\ "uncertain" \in Range(piece_result.modular.edges[f])

\* A two-cell piece with nothing selected on +x (its triangles are in the
\* slab, with normals at the threshold or below) and full walls elsewhere.
EmptySlabOpenWitness ==
    /\ Classified
    /\ mesh.faces["+x"].triangles = AtThreshold(2)
    /\ \A f \in Faces \ {"+x"} :
          /\ ~NothingSelected(f)
          /\ \E n \in 1..2 : mesh.faces[f].triangles = FacingSide(WholeFace(n))
    /\ piece_result.modular.grid_footprint = <<1, 2>>
    /\ piece_result.modular.edges["+x"] = <<"open", "open">>
    /\ piece_result.modular.coverage["+x"] = <<<<0, 1>>, <<0, 1>>>>
    /\ ~piece_result.modular.needs_review
    /\ piece_result.modular.piece_type = "end_cap"

(***************************************************************************)
(* main: the loop over catalog["items"] and the write-back of the catalog. *)
(* Each iteration ends in one of these ways: the GLB file is not found;    *)
(* load_mesh, classify_piece or save_slab_render raises inside the try     *)
(* block; the piece is skipped as a floor tile; or the item is updated.    *)
(***************************************************************************)
\* item["modular"] = {...}: the fields of the result that are persisted
persisted_modular_with_coverage(mod) ==
    [edges |-> mod.edges,
     coverage |-> mod.coverage,
     piece_type |-> mod.piece_type,
     default_rotation |-> mod.default_rotation,
     grid_footprint |-> mod.grid_footprint,
     needs_review |-> mod.needs_review]

persisted_modular(mod) ==
    [edges |-> mod.edges,
     piece_type |-> mod.piece_type,
     default_rotation |-> mod.default_rotation,
     grid_footprint |-> mod.grid_footprint,
     needs_review |-> mod.needs_review]

\* The item with its "modular" key set.
with_modular(item, modular) ==
    [k \in DOMAIN item \cup {"modular"} |->
        IF k = "modular" THEN modular ELSE item[k]]

\* The try block from classify_piece on, for a mesh that loaded and a
\* classification that did not raise: what is logged for the item, and the
\* item afterwards.  rendered tells whether every save_slab_render returned.
classified_item(key, item, a_mesh, rendered) ==
    LET result == classify_piece(a_mesh) IN
    IF "skip" \in DOMAIN result
    THEN [log |-> [key |-> key, outcome |-> "floor_tile", result |-> result],
          item |-> item]
    ELSE IF ~rendered
    THEN [log |-> [key |-> key, outcome |-> "render_error", result |-> result],
          item |-> item]
    ELSE [log |-> [key |-> key, outcome |-> "classified", result |-> result],
          item |-> with_modular(item, persisted_modular(result.modular))]

\* An iteration that ends before results[key] is set.
failed_item(key, item, outcome) ==
    [log |-> [key |-> key, outcome |-> outcome], item |-> item]

(***************************************************************************)
(* Inputs of the batch: catalogs of up to MaxItems items, each never       *)
(* classified or carrying a hand-edited modular entry, and three meshes.   *)
(***************************************************************************)
Walled(perp) == [triangles |-> FacingSide(WholeFace(perp))]
Bare == [triangles |-> OutsideSlab(1)]

FlatTile ==
    [height |-> 4, width |-> 2, depth |-> 2, faces |-> [f \in Faces |-> Bare]]

Corridor ==
    [height |-> 30, width |-> 2, depth |-> 2,
     faces |-> [f \in Faces |-> IF f \in {"+z", "-z"} THEN Bare ELSE Walled(1)]]

DoubtfulHall ==
    [height |-> 30, width |-> 5, depth |-> 2,
     faces |-> [f \in Faces |->
                  IF f = "+z"
                  THEN [triangles |-> FacingSide(<<"upper", "empty">>)]
                  ELSE IF f = "-z" THEN Walled(2) ELSE Walled(1)]]

BatchMeshes == {FlatTile, Corridor, DoubtfulHall}

OldEntry ==
    [edges |-> WallEdges, piece_type |-> "enclosed", default_rotation |-> 0,
     grid_footprint |-> <<1, 1>>, needs_review |-> FALSE, tags |-> <<"lit">>]

BatchItems == {[cdn_url |-> "u"], [cdn_url |-> "u", modular |-> OldEntry]}

BatchKeys == <<"k1", "k2", "k3", "k4">>

NotSaved == [written |-> FALSE, items |-> <<>>]

BatchInit ==
    /\ pc = "loop"
    /\ \E n \in 0..MaxItems :
       \E items \in [1..n -> BatchItems] :
          batch_loaded = [i \in 1..n |-> [key |-> BatchKeys[i], item |-> items[i]]]
    /\ batch_items = batch_loaded
    /\ batch_index = 1
    /\ batch_log = <<>>
    /\ batch_saved = NotSaved
    /\ RotIdle /\ ClsIdle /\ CovIdle /\ FindIdle /\ KitIdle /\ PieceIdle /\ RasterIdle /\ SnapIdle

\* One iteration of the loop, ending as done says.
ProcessItem(done) ==
    /\ pc = "loop"
    /\ batch_index <= Len(batch_items)
    /\ batch_items' = [batch_items EXCEPT ![batch_index].item = done.item]
    /\ batch_log' = Append(batch_log, done.log)
    /\ batch_index' = batch_index + 1
    /\ UNCHANGED <<pc, batch_loaded, batch_saved, rotVars, clsVars, covVars,
                   findVars, kitVars, pieceVars, rasterVars, snapVars>>

\* json.dump(catalog, f) after the loop
SaveCatalog ==
    /\ pc = "loop"
    /\ batch_index > Len(batch_items)
    /\ batch_saved' = [written |-> TRUE, items |-> batch_items]
    /\ pc' = "saved"
    /\ UNCHANGED <<batch_loaded, batch_items, batch_index, batch_log, rotVars,
                   clsVars, covVars, findVars, kitVars, pieceVars, rasterVars, snapVars>>

BatchNext ==
    \/ \E outcome \in {"glb_missing", "load_error", "classify_error"} :
          /\ batch_index <= Len(batch_items)
          /\ ProcessItem(failed_item(batch_items[batch_index].key,
                                     batch_items[batch_index].item, outcome))
    \/ \E a_mesh \in BatchMeshes, rendered \in BOOLEAN :
          /\ batch_index <= Len(batch_items)
          /\ ProcessItem(classified_item(batch_items[batch_index].key,
                                         batch_items[batch_index].item,
                                         a_mesh, rendered))
    \/ SaveCatalog

SpecBatch == BatchInit /\ [][BatchNext]_vars

(***************************************************************************)
(* Properties of the batch.                                                *)
(***************************************************************************)
PersistedFields ==
    {"edges", "piece_type", "default_rotation", "grid_footprint", "needs_review"}

\* Item i was processed, and its modular entry is the five persisted
\* fields of its classification, the rest of the item being as loaded.
Updated(i) ==
    /\ "modular" \in DOMAIN batch_items[i].item
    /\ DOMAIN batch_items[i].item.modular = PersistedFields
    /\ \A field \in PersistedFields :
          batch_items[i].item.modular[field] = batch_log[i].result.modular[field]
    /\ DOMAIN batch_items[i].item = DOMAIN batch_loaded[i].item \cup {"modular"}
    /\ \A k \in DOMAIN batch_loaded[i].item \ {"modular"} :
          batch_items[i].item[k] = batch_loaded[i].item[k]

\* The loop takes the items in order, each once, and goes on to the next
\* and finally to the write-back whatever happened to an item.
LoopGoesOn ==
    /\ Len(batch_log) = batch_index - 1
    /\ \A i \in 1..Len(batch_log) : batch_log[i].key = batch_loaded[i].key
    /\ \A i \in batch_index..Len(batch_items) : batch_items[i] = batch_loaded[i]
    /\ batch_index <= Len(batch_items) => pc = "loop"
    /\ pc = "saved" =>
          /\ Len(batch_log) = Len(batch_loaded)
          /\ batch_saved = [written |-> TRUE, items |-> batch_items]

\* C19 (as claimed): an item whose mesh failed to load or to classify, or
\* that was skipped as a floor tile, keeps its modular entry; later items
\* are still processed; every item that was classified (its result has
\* modular data) gets a modular entry of exactly the five fields.
BatchIsolationClassified ==
    /\ LoopGoesOn
    /\ \A i \in 1..Len(batch_log) :
          /\ batch_log[i].outcome \in {"load_error", "classify_error", "floor_tile"}
                => batch_items[i] = batch_loaded[i]
          /\ ( /\ "result" \in DOMAIN batch_log[i]
               /\ "modular" \in DOMAIN batch_log[i].result )
             => Updated(i)

\* C19 (amended): an item whose GLB is missing, whose mesh failed to load
\* or to classify, whose diagnostic images failed to be written, or that
\* was skipped as a floor tile, keeps its modular entry; later items are
\* still processed; every item that went through the whole iteration gets
\* a modular entry of exactly the five fields.
BatchIsolation ==
    /\ LoopGoesOn
    /\ \A i \in 1..Len(batch_log) :
          /\ batch_log[i].outcome \in
                {"glb_missing", "load_error", "classify_error", "render_error",
                 "floor_tile"}
                => batch_items[i] = batch_loaded[i]
          /\ batch_log[i].outcome = "classified" => Updated(i)
          /\ batch_log[i].outcome = "floor_tile" <=>
                ("result" \in DOMAIN batch_log[i] /\ "skip" \in DOMAIN batch_log[i].result)

\* The first item failed to load and kept its hand-edited entry; the second
\* was classified after it and its entry was replaced; the catalog is saved.
BatchIsolationWitness ==
    /\ pc = "saved"
    /\ Len(batch_log) = 2
    /\ batch_log[1].outcome = "load_error"
    /\ batch_loaded[1].item = [cdn_url |-> "u", modular |-> OldEntry]
    /\ batch_saved.items[1].item = [cdn_url |-> "u", modular |-> OldEntry]
    /\ batch_log[2].outcome = "classified"
    /\ batch_loaded[2].item = [cdn_url |-> "u", modular |-> OldEntry]
    /\ batch_saved.items[2].item.modular.needs_review
    /\ batch_saved.items[2].item.modular.grid_footprint = <<2, 1>>
    /\ DOMAIN batch_saved.items[2].item.modular = PersistedFields
(***************************************************************************)
(* Properties of analyze_coverage.                                         *)
(***************************************************************************)
Analyzed == pc = "analyzed" /\ cov_args.op = "analyze_coverage"

\* The rows of the passage zone: below the ceiling exclusion, above the
\* floor exclusion.
PassageRows ==
    LET rows == passage_rows(raster.shape[1], cov_args.floor_exclude,
                             cov_args.ceiling_exclude)
    IN  (rows[1] + 1)..rows[2]

\* The pixel columns of transverse cell i (from 1).
CellColumns(i) ==
    LET cell == cell_bounds(i - 1, raster.shape[2], cov_args.cells)
    IN  (cell[1] + 1)..cell[2]

\* The columns left of cell i after the side_exclude fraction of its pixel
\* width, rounded to whole pixels, is taken off each side.
TrimmedColumns(i) ==
    LET side_px == round(Cardinality(CellColumns(i)) * cov_args.side_exclude, 100)
    IN  {c \in CellColumns(i) :
            /\ c - side_px \in CellColumns(i)
            /\ c + side_px \in CellColumns(i)}

FilledIn(rows, columns) ==
    Cardinality({at \in rows \X columns : raster.px[at[1]][at[2]]})

\* ratio = filled / total over the region, and 0 when the region is empty
RatioOver(ratio, rows, columns) ==
    IF rows = {} \/ columns = {} THEN ratio[1] = 0
    ELSE ratio[1] * Cardinality(rows \X columns) = FilledIn(rows, columns) * ratio[2]

InUnitInterval(ratio) == ratio[2] > 0 /\ 0 <= ratio[1] /\ ratio[1] <= ratio[2]

\* C23 as stated: analyze_coverage returns exactly `cells` ratios, each in
\* [0,1]; the ratio of a cell is the filled share of the passage-zone
\* pixels of the cell's columns after trimming, and 0 when no column is left
\* after trimming.
CoverageOfTrimmedCell ==
    Analyzed =>
        /\ Len(ratios) = cov_args.cells
        /\ \A i \in 1..Len(ratios) :
              /\ InUnitInterval(ratios[i])
              /\ RatioOver(ratios[i], PassageRows, TrimmedColumns(i))

\* C23 as amended: when the trimming leaves no column of the cell, the
\* ratio is measured over the untrimmed cell; it is 0 when the measured
\* region has no pixel.
CoverageOfMeasuredCell ==
    Analyzed =>
        /\ Len(ratios) = cov_args.cells
        /\ \A i \in 1..Len(ratios) :
              /\ InUnitInterval(ratios[i])
              /\ RatioOver(ratios[i], PassageRows,
                           IF TrimmedColumns(i) = {} THEN CellColumns(i)
                           ELSE TrimmedColumns(i))

\* A 4 x 4 image measured as one cell with the default exclusions: the two
\* outer columns are full, the passage zone between them is empty, and the
\* ratio is 0 of the 4 pixels left after trimming a column on each side and
\* a row at the top and at the bottom.
CoverageOfMeasuredCellWitness ==
    /\ Analyzed
    /\ raster.shape = <<4, 4>>
    /\ cov_args.cells = 1
    /\ cov_args.side_exclude = SIDE_EXCLUDE
    /\ cov_args.floor_exclude = FLOOR_EXCLUDE
    /\ cov_args.ceiling_exclude = CEILING_EXCLUDE
    /\ \A r \in 1..4 : raster.px[r][1] /\ raster.px[r][4]
    /\ ratios = <<<<0, 4>>>>
(***************************************************************************)
(* Shape of the result of classify_piece and its needs_review flag.        *)
(***************************************************************************)
\* C21: every non-skip result of classify_piece has an edge map with exactly
\* the faces +z, +x, -z, -x; the +x and -x arrays are grid_footprint[2]
\* long and the +z and -z arrays grid_footprint[1] long (grid_footprint[1]
\* and [0] of the code), both footprint components are integers >= 1, and
\* the coverage map has the keys and the array lengths of the edge map.
FaceMapShape ==
    Classified =>
        LET modular == piece_result.modular IN
        /\ DOMAIN modular.edges = {"+z", "+x", "-z", "-x"}
        /\ modular.grid_footprint \in (Nat \ {0}) \X (Nat \ {0})
        /\ \A f \in {"+x", "-x"} : Len(modular.edges[f]) = modular.grid_footprint[2]
        /\ \A f \in {"+z", "-z"} : Len(modular.edges[f]) = modular.grid_footprint[1]
        /\ DOMAIN modular.coverage = DOMAIN modular.edges
        /\ \A f \in DOMAIN modular.edges :
              /\ DOMAIN modular.coverage[f] = DOMAIN modular.edges[f]
              /\ \A i \in DOMAIN modular.edges[f] :
                    modular.edges[f][i] \in EdgeStates

\* A piece one cell wide and two cells deep whose +z face selected nothing
\* and whose other faces were rasterized and measured.
FaceMapShapeWitness ==
    /\ Classified
    /\ piece_result.modular.grid_footprint = <<1, 2>>
    /\ NothingSelected("+z")
    /\ \A f \in Faces \ {"+z"} : ~NothingSelected(f)
    /\ Len(piece_result.modular.edges["+x"]) = 2
    /\ Len(piece_result.modular.coverage["-x"]) = 2
    /\ Len(piece_result.modular.edges["-z"]) = 1
    /\ piece_result.modular.edges["-x"] = <<"closed", "uncertain">>

\* C22: needs_review of a classified piece is true if and only if at least
\* one transverse cell of at least one face was classified uncertain.
NeedsReviewIffUncertain ==
    Classified =>
        (piece_result.modular.needs_review
            <=> \E f \in Faces : "uncertain" \in Range(piece_result.modular.edges[f]))

\* A two-cell face whose first cell is uncertain and whose second is closed
\* is the only face with an uncertain cell, and the piece is up for review;
NeedsReviewIffUncertainWitness ==
    /\ Classified
    /\ piece_result.modular.needs_review
    /\ piece_result.modular.edges["+x"] = <<"uncertain", "closed">>
    /\ \A f \in Faces \ {"+x"} : "uncertain" \notin Range(piece_result.modular.edges[f])
(***************************************************************************)
(* The placement callback.                                                 *)
(***************************************************************************)
IsPlacement(call) == call.op \in {"place_mod", "place_room", "place_corridor_run"}

\* C24: a bound callback is invoked exactly once by each place_mod call and
\* each place_room call, and exactly once for each segment a corridor run
\* places, every invocation for the record appended with it; when no
\* callback is bound nothing is invoked and the records are appended all
\* the same.
CallbackOncePerPlacement ==
    [][IsPlacement(kit_call') =>
        LET added == Len(_placed') - Len(_placed) IN
        /\ place_fn # None =>
              /\ Len(place_calls') = added
              /\ \A i \in 1..added :
                    place_calls'[i].key = _placed'[Len(_placed) + i].key
              /\ kit_call'.op \in {"place_mod", "place_room"} =>
                    Len(place_calls') = 1
              /\ (kit_call'.op = "place_corridor_run" /\ ~kit_ret'.raised) =>
                    Len(place_calls') = Max(kit_call'.length, 0)
        /\ place_fn = None =>
              /\ place_calls' = <<>>
              /\ kit_call'.op \in {"place_mod", "place_room"} => added = 1
              /\ (kit_call'.op = "place_corridor_run" /\ ~kit_ret'.raised) =>
                    added = Max(kit_call'.length, 0)]_vars

\* A corridor run of two segments with the callback bound: two records, two
\* invocations, at the world positions of the two cells.
CallbackOncePerPlacementWitness ==
    /\ kit_call.op = "place_corridor_run"
    /\ place_fn # None
    /\ ~kit_ret.raised
    /\ kit_call.length = 2 /\ kit_call.direction = "+z"
    /\ Len(_placed) = 2
    /\ Len(place_calls) = 2
    /\ place_calls[1].position # place_calls[2].position
\* C29: the record is appended before the callback is invoked.  A place_mod
\* or place_room call whose callback raises leaves its record at the end of
\* the placed sequence; a corridor run whose callback raises leaves the
\* records of the segments placed so far, the raising one included, and
\* places none of the remaining segments; a validate_layout that follows
\* sees the record: it reports the cells it shares with earlier pieces.
RecordBeforeCallback ==
    [][ /\ (IsPlacement(kit_call') /\ kit_ret' = RaisedByCallback) =>
            LET added == Len(_placed') - Len(_placed)
                last == _placed'[Len(_placed')]
            IN  /\ added >= 1
                /\ \A n \in 1..Len(_placed) : _placed'[n] = _placed[n]
                /\ Len(place_calls') = added
                /\ kit_call'.op \in {"place_mod", "place_room"} =>
                      /\ added = 1
                      /\ last.key = kit_call'.key
                      /\ <<last.gx, last.gz, last.level>> =
                            <<kit_call'.gx, kit_call'.gz, kit_call'.level>>
                /\ kit_call'.op = "place_corridor_run" =>
                      /\ added <= kit_call'.length
                      /\ \A i \in 0..(added - 1) :
                            LET step == UnitStep(kit_call'.direction)
                                segment == _placed'[Len(_placed) + i + 1]
                            IN  /\ segment.key = kit_call'.key
                                /\ segment.gx = kit_call'.gx + i * step[1]
                                /\ segment.gz = kit_call'.gz + i * step[2]
        /\ ( /\ IsPlacement(kit_call) /\ kit_ret = RaisedByCallback
             /\ kit_call'.op = "validate_layout" /\ ~kit_ret'.raised ) =>
            LET last == _placed[Len(_placed)] IN
            \A n \in 1..(Len(_placed) - 1) :
               LET shared == Range(footprint_cells(_placed[n]))
                                \cap Range(footprint_cells(last))
               IN  \A cell \in shared :
                      \E k \in 1..Len(kit_ret'.value) :
                         /\ IsOverlap(kit_ret'.value[k])
                         /\ kit_ret'.value[k].cell = cell
                         /\ kit_ret'.value[k].key = last.key ]_vars

\* A corridor run of two segments whose callback raised on the first: one
\* record, one invocation, the second segment not placed.
RecordBeforeCallbackWitness ==
    /\ kit_call.op = "place_corridor_run"
    /\ kit_ret = RaisedByCallback
    /\ kit_call.length = 2
    /\ Len(_placed) = 1
    /\ _placed[1].gx = kit_call.gx /\ _placed[1].gz = kit_call.gz
    /\ Len(place_calls) = 1
\* C30: place_corridor_run with a direction other than +x, -x, +z, -z fails
\* with an error before it places anything: whatever the length, no record
\* is appended and the callback is not invoked.
UnknownDirectionPlacesNothing ==
    [][(kit_call'.op = "place_corridor_run"
          /\ kit_call'.direction \notin {"+x", "-x", "+z", "-z"}) =>
        /\ kit_ret'.raised
        /\ _placed' = _placed
        /\ place_calls' = <<>>]_vars

\* A run of one towards "up" asked of a kit with a bound callback that has
\* already placed a piece.
UnknownDirectionPlacesNothingWitness ==
    /\ kit_call.op = "place_corridor_run"
    /\ kit_call.direction = "up" /\ kit_call.length = 1
    /\ place_fn # None
    /\ kit_ret = RaisedKeyError
    /\ Len(_placed) = 1
    /\ place_calls = <<>>
(***************************************************************************)
(* The neighbour cells of the open-edge pass.                              *)
(***************************************************************************)
\* The record of the piece holds the footprint the catalog gives its key,
\* and the catalog has an array for each face of it.
PlacedWithCatalogFootprint(p) ==
    /\ "edges" \in DOMAIN ModularData(p)
    /\ DOMAIN ModularData(p).edges = Faces
    /\ footprint_of(p) = CatalogFootprint(p.key)

\* The cell shares an edge with a cell of the footprint of the piece.
EdgeAdjacentToFootprint(cell, p) ==
    \E own \in Range(footprint_cells(p)) :
        /\ own[3] = cell[3]
        /\ Abs(own[1] - cell[1]) + Abs(own[2] - cell[2]) = 1

\* C27 (as claimed): for every placed piece, at every rotation step, and
\* for every open transverse cell of its rotated edge map, the transverse
\* index is below the footprint extent along the transverse axis and the
\* neighbour cell validate_layout checks shares an edge with a cell of the
\* footprint of the piece, pieces with a non-square footprint at an odd
\* rotation included.
NeighbourIsEdgeAdjacent ==
    (kit_call.op = "validate_layout" /\ kit_catalog # <<>>) =>
        \A n \in 1..Len(_placed) :
            PlacedWithCatalogFootprint(_placed[n]) =>
                LET p == _placed[n]
                    edges == rotated_edges(ModularData(p).edges, p.rot_steps)
                IN  \A f \in Faces :
                        \A i \in 1..Len(edges[f]) :
                            edges[f][i] = "open" =>
                                /\ i - 1 < (IF f \in {"+z", "-z"}
                                            THEN footprint_of(p)[1]
                                            ELSE footprint_of(p)[2])
                                /\ EdgeAdjacentToFootprint(neighbour_cell(p, f, i - 1), p)
\* The cells the placed pieces claim.
ClaimedCells ==
    UNION {Range(footprint_cells(_placed[n])) : n \in 1..Len(_placed)}

\* The open cells of the rotated edge maps of the placed pieces whose
\* neighbour cell, on the level of the piece, nobody claims.
DanglingCells ==
    {d \in (1..Len(_placed)) \X Faces \X (1..3) :
        LET p == _placed[d[1]]
            edges == rotated_edges(ModularData(p).edges, p.rot_steps)
        IN  /\ "edges" \in DOMAIN ModularData(p)
            /\ d[2] \in DOMAIN edges
            /\ d[3] \in 1..Len(edges[d[2]])
            /\ edges[d[2]][d[3]] = "open"
            /\ neighbour_cell(p, d[2], d[3] - 1) \notin ClaimedCells}

\* C28: the dangling-edge check looks at occupancy only.  validate_layout
\* gives one open-edge warning for each open cell whose neighbour cell, on
\* the same level, no placed piece claims, and none for an open cell that
\* faces a claimed cell, whatever piece claims it and whatever that piece
\* shows on the facing side; there are open-edge warnings only when a
\* non-empty catalog is bound, and only for pieces whose key has modular
\* data.
OccupancyOnly ==
    Validated =>
        LET open_edge == SelectSeq(kit_ret.value, IsOpenEdge) IN
        /\ kit_catalog = <<>> => open_edge = <<>>
        /\ kit_catalog # <<>> => Len(open_edge) = Cardinality(DanglingCells)
        /\ \A k \in 1..Len(open_edge) :
              \E d \in DanglingCells :
                 /\ Truthy(ModularData(_placed[d[1]]))
                 /\ open_edge[k] =
                       OpenEdgeWarning(_placed[d[1]], d[2],
                                       neighbour_cell(_placed[d[1]], d[2], d[3] - 1))

\* A dead end at the origin, open towards (0, 1), and on (0, 1) a piece
\* whose key is in no catalog: nothing dangles.
OccupancyOnlyWitness ==
    /\ Validated
    /\ kit_catalog # <<>>
    /\ Len(_placed) = 2
    /\ _placed[1].key = "end" /\ _placed[1].rot_steps = 0
    /\ <<_placed[1].gx, _placed[1].gz, _placed[1].level>> = <<0, 0, 0>>
    /\ _placed[2].key = "ghost"
    /\ <<_placed[2].gx, _placed[2].gz, _placed[2].level>> = <<0, 1, 0>>
    /\ kit_ret.value = <<>>
(***************************************************************************)
(* Snapshot format conversion (portals_utils): merge_logic_into_items,     *)
(* split_logic_from_items, normalize_snapshot.  A Python value is an int,  *)
(* a str, a list or a dict; a dict keeps its pairs in insertion order.  A  *)
(* str is the sequence of its lexemes, so that json.dumps writes text and  *)
(* json.loads parses it: punctuation, numbers, quoted strings, and bare    *)
(* words that are no JSON.                                                 *)
(***************************************************************************)
Num(n) == [type |-> "int", n |-> n]
Str(lexemes) == [type |-> "str", s |-> lexemes]
List(items) == [type |-> "list", items |-> items]
Dict(pairs) == [type |-> "dict", items |-> pairs]

Punct(c) == [lex |-> c]
NumLex(n) == [lex |-> "num", n |-> n]
StrLex(content) == [lex |-> "str", content |-> content]
Word(w) == [lex |-> "word", w |-> w]

\* item_separator ',' between the parts
RECURSIVE Joined(_)
Joined(parts) ==
    IF parts = <<>> THEN <<>>
    ELSE IF Len(parts) = 1 THEN parts[1]
    ELSE parts[1] \o <<Punct(",")>> \o Joined(Tail(parts))

\* json.dumps(value, separators=(',', ':'))
RECURSIVE json_dumps(_)
json_dumps(value) ==
    CASE value.type = "int" -> <<NumLex(value.n)>>
      [] value.type = "str" -> <<StrLex(value.s)>>
      [] value.type = "list" ->
            <<Punct("[")>>
            \o Joined([i \in 1..Len(value.items) |-> json_dumps(value.items[i])])
            \o <<Punct("]")>>
      [] value.type = "dict" ->
            <<Punct("{")>>
            \o Joined([i \in 1..Len(value.items) |->
                         <<StrLex(<<Word(value.items[i].k)>>), Punct(":")>>
                         \o json_dumps(value.items[i].v)])
            \o <<Punct("}")>>

\* dict[key] = value on a dict kept as its pairs in insertion order
SetPair(pairs, key, value) ==
    IF \E i \in 1..Len(pairs) : pairs[i].k = key
    THEN [i \in 1..Len(pairs) |->
            IF pairs[i].k = key THEN [k |-> key, v |-> value] ELSE pairs[i]]
    ELSE Append(pairs, [k |-> key, v |-> value])

HasKey(pairs, key) == \E i \in 1..Len(pairs) : pairs[i].k = key

Lookup(pairs, key) == pairs[CHOOSE i \in 1..Len(pairs) : pairs[i].k = key].v

\* The JSON decoder: a value starting at lexeme pos, and where it ends.
NoParse == [ok |-> FALSE]
Parsed(value, next) == [ok |-> TRUE, value |-> value, next |-> next]

RECURSIVE parse_value(_, _)
RECURSIVE parse_elements(_, _, _)
RECURSIVE parse_members(_, _, _)

parse_value(toks, pos) ==
    IF pos > Len(toks) THEN NoParse
    ELSE CASE toks[pos].lex = "num" -> Parsed(Num(toks[pos].n), pos + 1)
           [] toks[pos].lex = "str" -> Parsed(Str(toks[pos].content), pos + 1)
           [] toks[pos].lex = "[" ->
                 IF pos + 1 <= Len(toks) /\ toks[pos + 1].lex = "]"
                 THEN Parsed(List(<<>>), pos + 2)
                 ELSE parse_elements(toks, pos + 1, <<>>)
           [] toks[pos].lex = "{" ->
                 IF pos + 1 <= Len(toks) /\ toks[pos + 1].lex = "}"
                 THEN Parsed(Dict(<<>>), pos + 2)
                 ELSE parse_members(toks, pos + 1, <<>>)
           [] OTHER -> NoParse

parse_elements(toks, pos, acc) ==
    LET element == parse_value(toks, pos) IN
    IF ~element.ok THEN NoParse
    ELSE IF element.next > Len(toks) THEN NoParse
    ELSE IF toks[element.next].lex = ","
         THEN parse_elements(toks, element.next + 1, Append(acc, element.value))
    ELSE IF toks[element.next].lex = "]"
         THEN Parsed(List(Append(acc, element.value)), element.next + 1)
    ELSE NoParse

parse_members(toks, pos, acc) ==
    IF pos + 1 > Len(toks) THEN NoParse
    ELSE IF toks[pos].lex # "str" \/ toks[pos + 1].lex # ":" THEN NoParse
    ELSE IF Len(toks[pos].content) # 1 THEN NoParse
    ELSE IF toks[pos].content[1].lex # "word" THEN NoParse
    ELSE LET key == toks[pos].content[1].w
             member == parse_value(toks, pos + 2)
         IN  IF ~member.ok THEN NoParse
             ELSE IF member.next > Len(toks) THEN NoParse
             ELSE IF toks[member.next].lex = ","
                  THEN parse_members(toks, member.next + 1,
                                     SetPair(acc, key, member.value))
             ELSE IF toks[member.next].lex = "}"
                  THEN Parsed(Dict(SetPair(acc, key, member.value)), member.next + 1)
             ELSE NoParse

\* json.loads(text): the value, or a JSONDecodeError
json_loads(text) ==
    LET whole == parse_value(text, 1)
    IN  IF whole.ok
        THEN IF whole.next = Len(text) + 1
             THEN [ok |-> TRUE, value |-> whole.value] ELSE NoParse
        ELSE NoParse

\* item["extraData"] = value and item.pop("extraData")
with_extraData(item, value) ==
    [key \in DOMAIN item \cup {"extraData"} |->
        IF key = "extraData" THEN value ELSE item[key]]

without_extraData(item) == [key \in DOMAIN item \ {"extraData"} |-> item[key]]

\* The loop of merge_logic_into_items over logic.items()
RECURSIVE merge_loop_always_dumps(_, _)
merge_loop_always_dumps(items, logic) ==
    IF logic = <<>> THEN items
    ELSE LET item_id == Head(logic).k
             logic_entry == Head(logic).v
         IN  merge_loop_always_dumps(
                 IF HasKey(items, item_id)
                 THEN SetPair(items, item_id,
                              with_extraData(Lookup(items, item_id),
                                             Str(json_dumps(logic_entry))))
                 ELSE items,
                 Tail(logic))

RECURSIVE merge_loop(_, _)
merge_loop(items, logic) ==
    IF logic = <<>> THEN items
    ELSE LET item_id == Head(logic).k
             logic_entry == Head(logic).v
         IN  merge_loop(
                 IF HasKey(items, item_id)
                 THEN SetPair(items, item_id,
                              with_extraData(Lookup(items, item_id),
                                             IF logic_entry.type = "str"
                                             THEN logic_entry
                                             ELSE Str(json_dumps(logic_entry))))
                 ELSE items,
                 Tail(logic))

\* data.pop("logic", {}), data.get("roomItems", {}) and the loop; the dict
\* is changed in place
merge_logic_into_items(data) ==
    LET logic == Get(data, "logic", <<>>)
        popped == [key \in DOMAIN data \ {"logic"} |-> data[key]]
    IN  IF "roomItems" \in DOMAIN popped
        THEN [popped EXCEPT !["roomItems"] = merge_loop(@, logic)]
        ELSE popped

\* The loop of split_logic_from_items over list(items.items()), from item
\* n on: it ends with the items and the logic dict as changed so far when
\* json.loads raises.
RECURSIVE split_loop_keeping_extraData(_, _, _)
split_loop_keeping_extraData(items, n, logic) ==
    IF n > Len(items) THEN [raised |-> FALSE, items |-> items, logic |-> logic]
    ELSE IF "extraData" \notin DOMAIN items[n].v
         THEN split_loop_keeping_extraData(items, n + 1, logic)
    ELSE LET ed == items[n].v.extraData IN
         IF ed.type = "str" /\ ed.s # <<>>
         THEN IF json_loads(ed.s).ok
              THEN split_loop_keeping_extraData(items, n + 1,
                       SetPair(logic, items[n].k, json_loads(ed.s).value))
              ELSE [raised |-> TRUE, items |-> items, logic |-> logic]
         ELSE IF ed.type = "dict"
              THEN split_loop_keeping_extraData(items, n + 1,
                                                SetPair(logic, items[n].k, ed))
         ELSE split_loop_keeping_extraData(items, n + 1, logic)

RECURSIVE split_loop(_, _, _)
split_loop(items, n, logic) ==
    IF n > Len(items) THEN [raised |-> FALSE, items |-> items, logic |-> logic]
    ELSE IF "extraData" \notin DOMAIN items[n].v THEN split_loop(items, n + 1, logic)
    ELSE LET ed == items[n].v.extraData
             popped == SetPair(items, items[n].k, without_extraData(items[n].v))
         IN  IF ed.type = "str" /\ ed.s # <<>>
             THEN IF json_loads(ed.s).ok
                  THEN split_loop(popped, n + 1,
                                  SetPair(logic, items[n].k, json_loads(ed.s).value))
                  ELSE [raised |-> TRUE, items |-> popped, logic |-> logic]
             ELSE IF ed.type = "dict"
                  THEN split_loop(popped, n + 1, SetPair(logic, items[n].k, ed))
             ELSE split_loop(popped, n + 1, logic)

\* split_logic_from_items: data["logic"] = logic is reached only when the
\* loop ends; the items and a logic dict that data already held are changed
\* in place.
split_logic_from_items(data) ==
    LET out == split_loop(Get(data, "roomItems", <<>>), 1, Get(data, "logic", <<>>))
    IN  [raised |-> out.raised,
         data |->
            [key \in DOMAIN data \cup (IF out.raised THEN {} ELSE {"logic"}) |->
                CASE key = "roomItems" -> out.items
                  [] key = "logic" -> out.logic
                  [] OTHER -> data[key]]]

normalize_snapshot(data) ==
    IF "logic" \in DOMAIN data THEN merge_logic_into_items(data) ELSE data

\* Logic entries and extraData values of the snapshots explored.
KeyCode == Dict(<<[k |-> "keyCode", v |-> Num(0)]>>)

Tasks ==
    Dict(<<[k |-> "Tasks",
            v |-> List(<<Dict(<<[k |-> "$type", v |-> Str(<<Word("OnClickEvent")>>)],
                                [k |-> "Id", v |-> Num(1)]>>)>>)],
           [k |-> "events", v |-> List(<<>>)]>>)

TasksText ==
    Str(<<Punct("{"), StrLex(<<Word("Tasks")>>), Punct(":"), Punct("["), Punct("]"),
          Punct("}")>>)

EmptyStr == Str(<<>>)

NotJson == Str(<<Word("door"), Punct("}")>>)

LogicEntries == {KeyCode, Tasks, Dict(<<>>), TasksText, EmptyStr}

ExtraDataValues == {TasksText, EmptyStr, NotJson, KeyCode}

Plain == [prefabName |-> "GLB"]

RoomItemValues == {Plain} \cup {with_extraData(Plain, ed) : ed \in ExtraDataValues}

ItemIds == <<"1", "2">>

OrphanId == "999"

\* The dicts over the first n of the ids, each id left out or given a value
RECURSIVE PairsOver(_, _, _)
PairsOver(ids, values, optional) ==
    IF ids = <<>> THEN {<<>>}
    ELSE LET rest == PairsOver(Tail(ids), values, optional)
         IN  {<<[k |-> Head(ids), v |-> value]>> \o r : value \in values, r \in rest}
             \cup (IF optional THEN rest ELSE {})

RoomItemDicts == UNION {PairsOver(SubSeq(ItemIds, 1, n), RoomItemValues, FALSE) :
                          n \in 0..Len(ItemIds)}

LogicDicts ==
    {entries \o orphan : entries \in PairsOver(ItemIds, LogicEntries, TRUE),
                         orphan \in {<<>>, <<[k |-> OrphanId, v |-> KeyCode]>>}}

WithKey(data, key, value) ==
    [name \in DOMAIN data \cup {key} |-> IF name = key THEN value ELSE data[name]]

Snapshots ==
    LET bare == {[roomId |-> "room"]}
        with_items == bare \cup {WithKey(data, "roomItems", items) :
                                   data \in bare, items \in RoomItemDicts}
    IN  with_items \cup {WithKey(data, "logic", logic) :
                           data \in with_items, logic \in LogicDicts}

SnapInit ==
    /\ pc = "start"
    /\ snap_orig \in Snapshots
    /\ snap_data = snap_orig
    /\ snap_ops = <<>>
    /\ RotIdle /\ ClsIdle /\ CovIdle /\ FindIdle /\ KitIdle /\ PieceIdle
    /\ BatchIdle /\ RasterIdle

\* A further call is made while none has raised.
MayCall ==
    /\ Len(snap_ops) < MaxOps
    /\ \A i \in 1..Len(snap_ops) : ~snap_ops[i].raised

Called(op, raised) == Append(snap_ops, [op |-> op, raised |-> raised])

MergeLogicIntoItems ==
    /\ MayCall
    /\ snap_data' = merge_logic_into_items(snap_data)
    /\ snap_ops' = Called("merge_logic_into_items", FALSE)
    /\ UNCHANGED <<pc, snap_orig, rotVars, clsVars, covVars, findVars, kitVars,
                   pieceVars, batchVars, rasterVars>>

SplitLogicFromItems ==
    /\ MayCall
    /\ snap_data' = split_logic_from_items(snap_data).data
    /\ snap_ops' = Called("split_logic_from_items",
                          split_logic_from_items(snap_data).raised)
    /\ UNCHANGED <<pc, snap_orig, rotVars, clsVars, covVars, findVars, kitVars,
                   pieceVars, batchVars, rasterVars>>

NormalizeSnapshot ==
    /\ MayCall
    /\ snap_data' = normalize_snapshot(snap_data)
    /\ snap_ops' = Called("normalize_snapshot", FALSE)
    /\ UNCHANGED <<pc, snap_orig, rotVars, clsVars, covVars, findVars, kitVars,
                   pieceVars, batchVars, rasterVars>>

SnapNext == MergeLogicIntoItems \/ SplitLogicFromItems \/ NormalizeSnapshot

SpecSnap == SnapInit /\ [][SnapNext]_vars

(***************************************************************************)
(* Properties of the snapshot conversions.                                 *)
(***************************************************************************)
RoomItemsOf(data) == Get(data, "roomItems", <<>>)

LogicOf(data) == Get(data, "logic", <<>>)

Keys(pairs) == {pairs[i].k : i \in 1..Len(pairs)}

\* Two dicts equal as mappings, whatever the order of insertion
SameMapping(a, b) ==
    /\ Keys(a) = Keys(b)
    /\ \A key \in Keys(a) : Lookup(a, key) = Lookup(b, key)

HasExtraData(item) == "extraData" \in DOMAIN item

\* merge_logic_into_items then split_logic_from_items have been applied
MergedThenSplit ==
    /\ Len(snap_ops) = 2
    /\ snap_ops[1].op = "merge_logic_into_items"
    /\ snap_ops[2].op = "split_logic_from_items"

\* The logic entries are dicts keyed by ids present in roomItems
DictLogicOfItems(data) ==
    /\ "logic" \in DOMAIN data
    /\ \A i \in 1..Len(data.logic) :
          /\ data.logic[i].v.type = "dict"
          /\ HasKey(RoomItemsOf(data), data.logic[i].k)

\* No item without a logic entry carries an extraData field
NoExtraDataBesideLogic(data) ==
    \A i \in 1..Len(RoomItemsOf(data)) :
       HasKey(LogicOf(data), RoomItemsOf(data)[i].k)
       \/ ~HasExtraData(RoomItemsOf(data)[i].v)

\* The split returned, the logic mapping is the original one, and no item
\* has an extraData field
Restored ==
    /\ ~snap_ops[2].raised
    /\ "logic" \in DOMAIN snap_data
    /\ SameMapping(snap_data.logic, snap_orig.logic)
    /\ \A i \in 1..Len(RoomItemsOf(snap_data)) :
          ~HasExtraData(RoomItemsOf(snap_data)[i].v)

\* C25 as stated: for snapshot data whose logic entries are dicts keyed by
\* ids present in roomItems, merge then split restores a logic mapping equal
\* to the original for every id and leaves no item with an extraData field.
\* An item that has extraData of its own and no logic entry refutes it: the
\* split makes a logic entry of that text, or raises when it is no JSON.
MergeSplitRoundTrip ==
    (MergedThenSplit /\ DictLogicOfItems(snap_orig)) => Restored

\* C25, amended: for snapshot data whose logic entries are dicts keyed by
\* ids present in roomItems, and in which no item without a logic entry
\* carries an extraData field, merge then split restores a logic mapping
\* equal to the original for every id and leaves no item with an extraData
\* field.
MergeSplitRoundTripOfSeparated ==
    (/\ MergedThenSplit
     /\ DictLogicOfItems(snap_orig)
     /\ NoExtraDataBesideLogic(snap_orig)) => Restored

\* A round trip of a nested entry and an empty one, over an item whose own
\* extraData the merge replaced.
MergeSplitRoundTripOfSeparatedWitness ==
    /\ MergedThenSplit
    /\ DictLogicOfItems(snap_orig)
    /\ NoExtraDataBesideLogic(snap_orig)
    /\ Len(snap_orig.logic) = 2
    /\ snap_orig.logic[1].v = Tasks
    /\ snap_orig.logic[2].v = Dict(<<>>)
    /\ HasExtraData(snap_orig.roomItems[1].v)
    /\ Restored

\* merge_logic_into_items, or normalize_snapshot on data with a logic key,
\* has been applied to the original data
MergedOnce ==
    /\ Len(snap_ops) = 1
    /\ \/ snap_ops[1].op = "merge_logic_into_items"
       \/ snap_ops[1].op = "normalize_snapshot" /\ "logic" \in DOMAIN snap_orig

\* The logic key is gone, every other key but roomItems is as it was, and
\* roomItems has the ids it had: an entry for another id is dropped.
LogicKeyRemoved ==
    /\ DOMAIN snap_data = DOMAIN snap_orig \ {"logic"}
    /\ \A key \in DOMAIN snap_data \ {"roomItems"} : snap_data[key] = snap_orig[key]
    /\ Len(RoomItemsOf(snap_data)) = Len(RoomItemsOf(snap_orig))
    /\ \A i \in 1..Len(RoomItemsOf(snap_orig)) :
          RoomItemsOf(snap_data)[i].k = RoomItemsOf(snap_orig)[i].k

\* The item is the original one with extraData set from the entry: the
\* entry itself when it is a string, else JSON text that decodes to it.
ExtraDataSetFrom(item, original, entry) ==
    /\ HasExtraData(item)
    /\ without_extraData(item) = without_extraData(original)
    /\ item.extraData.type = "str"
    /\ IF entry.type = "str"
       THEN item.extraData = entry
       ELSE json_loads(item.extraData.s) = [ok |-> TRUE, value |-> entry]

\* Every item with a logic entry has extraData set from it
ExtraDataOfLogic ==
    \A i \in 1..Len(RoomItemsOf(snap_orig)) :
       HasKey(LogicOf(snap_orig), RoomItemsOf(snap_orig)[i].k) =>
          ExtraDataSetFrom(RoomItemsOf(snap_data)[i].v, RoomItemsOf(snap_orig)[i].v,
                           Lookup(LogicOf(snap_orig), RoomItemsOf(snap_orig)[i].k))

NormalizedWithoutLogic ==
    /\ Len(snap_ops) = 1
    /\ snap_ops[1].op = "normalize_snapshot"
    /\ "logic" \notin DOMAIN snap_orig

\* C26 as stated: merge_logic_into_items (and normalize_snapshot when a
\* logic key is present) removes the logic key, sets extraData on exactly
\* the items whose id has a logic entry, drops the entries of ids not in
\* roomItems, and leaves the other items without extraData;
\* normalize_snapshot on data without a logic key changes nothing.  An item
\* that has extraData of its own and no logic entry refutes "without
\* extraData": it keeps its field.
MergeSetsExtraDataOnly ==
    /\ MergedOnce =>
          /\ LogicKeyRemoved
          /\ ExtraDataOfLogic
          /\ \A i \in 1..Len(RoomItemsOf(snap_orig)) :
                HasKey(LogicOf(snap_orig), RoomItemsOf(snap_orig)[i].k)
                \/ ~HasExtraData(RoomItemsOf(snap_data)[i].v)
    /\ NormalizedWithoutLogic => snap_data = snap_orig

\* C26, amended: merge_logic_into_items (and normalize_snapshot when a
\* logic key is present, even an empty one) removes the logic key, sets
\* extraData on the items whose id has a logic entry (JSON text for a dict
\* entry, the entry itself for a string entry), drops the entries of ids not
\* in roomItems, and leaves every other item as it was, with the extraData
\* it had or without one; normalize_snapshot on data without a logic key
\* changes nothing.
MergeLeavesOtherItems ==
    /\ MergedOnce =>
          /\ LogicKeyRemoved
          /\ ExtraDataOfLogic
          /\ \A i \in 1..Len(RoomItemsOf(snap_orig)) :
                HasKey(LogicOf(snap_orig), RoomItemsOf(snap_orig)[i].k)
                \/ RoomItemsOf(snap_data)[i].v = RoomItemsOf(snap_orig)[i].v
    /\ NormalizedWithoutLogic => snap_data = snap_orig

\* A merge of a string entry for the first item and of an entry for an id
\* not in roomItems, the second item keeping the extraData it came with.
MergeLeavesOtherItemsWitness ==
    /\ MergedOnce
    /\ Len(RoomItemsOf(snap_orig)) = 2
    /\ LogicOf(snap_orig) = <<[k |-> "1", v |-> TasksText],
                              [k |-> OrphanId, v |-> KeyCode]>>
    /\ snap_data.roomItems[1].v.extraData = TasksText
    /\ HasExtraData(snap_orig.roomItems[2].v)
    /\ snap_data.roomItems[2].v = snap_orig.roomItems[2].v

====
